---- MODULE Spec2Model ----
(***************************************************************************)
(* Model of the member-profile-processor: the Qubits rating engine         *)
(* (libs/algorithm/AlgorithmQubits.ts), the marathon round calculation     *)
(* (services/MarathonRatingsService.ts: loadCoderData, persistRatings,     *)
(* runRatingProcess, calculate) and the relational store they act on.      *)
(*                                                                         *)
(* Numbers.  The engine computes in IEEE doubles.  A double is modelled    *)
(* as an integer counting ten-thousandths (scale S), or one of the three   *)
(* non-finite values NaN, PosInf, NegInf.  Quantities of the order of a    *)
(* squared rating do not fit the scale and are kept in the coarser units   *)
(* stated where they are computed.  Math.exp, Math.log and Math.sqrt are   *)
(* evaluated to the precision of the scale.                                *)
(***************************************************************************)
EXTENDS Integers, Sequences, FiniteSets, TLC

\* ------------------------------------------------------------------------
\* Doubles at fixed precision
\* ------------------------------------------------------------------------

S == 100 * 100

\* 0/0 (rtemp / (n - 1) with n = 1): not-a-number
NaN == -2100000000
\* Number.POSITIVE_INFINITY, Number.NEGATIVE_INFINITY
PosInf == 2000000000
NegInf == -2000000000

IsNaN(x) == x = NaN
IsInf(x) == x = PosInf \/ x = NegInf
IsFinite(x) == ~IsNaN(x) /\ ~IsInf(x)

Abs(x) == IF x < 0 THEN -x ELSE x
Sgn(x) == IF x < 0 THEN -1 ELSE IF x > 0 THEN 1 ELSE 0

\* a * b / c on naturals without leaving 32 bits (c > 0)
MulDivNat(a, b, c) == (a \div c) * b + ((a % c) * b) \div c

\* a * b / c, truncated towards zero (c # 0)
MulDiv(a, b, c) ==
    Sgn(a) * Sgn(b) * Sgn(c)
      * (IF Abs(a) >= Abs(b) THEN MulDivNat(Abs(a), Abs(b), Abs(c))
                             ELSE MulDivNat(Abs(b), Abs(a), Abs(c)))

\* double addition
FAdd(a, b) ==
    IF IsNaN(a) \/ IsNaN(b) THEN NaN
    ELSE IF IsInf(a) /\ IsInf(b) THEN (IF a = b THEN a ELSE NaN)
    ELSE IF IsInf(a) THEN a
    ELSE IF IsInf(b) THEN b
    ELSE a + b

FNeg(a) == IF IsNaN(a) THEN NaN ELSE -a

FSub(a, b) == FAdd(a, FNeg(b))

\* double multiplication
FMul(a, b) ==
    IF IsNaN(a) \/ IsNaN(b) THEN NaN
    ELSE IF IsInf(a) \/ IsInf(b)
         THEN (IF a = 0 \/ b = 0 THEN NaN
               ELSE IF Sgn(a) * Sgn(b) > 0 THEN PosInf ELSE NegInf)
    ELSE MulDiv(a, b, S)

\* double division: x/0 is an infinity, 0/0 is NaN
FDiv(a, b) ==
    IF IsNaN(a) \/ IsNaN(b) THEN NaN
    ELSE IF IsInf(a) /\ IsInf(b) THEN NaN
    ELSE IF IsInf(a) THEN (IF Sgn(a) * (IF b < 0 THEN -1 ELSE 1) > 0 THEN PosInf ELSE NegInf)
    ELSE IF IsInf(b) THEN 0
    ELSE IF b = 0 THEN (IF a = 0 THEN NaN ELSE IF a > 0 THEN PosInf ELSE NegInf)
    ELSE MulDiv(a, S, b)

\* comparisons of doubles: every comparison with NaN is false
FLt(a, b) == ~IsNaN(a) /\ ~IsNaN(b) /\ a < b
FGt(a, b) == FLt(b, a)
FLe(a, b) == ~IsNaN(a) /\ ~IsNaN(b) /\ a <= b
FGe(a, b) == FLe(b, a)

\* an integer as a double
Num(i) == i * S

\* Math.round: to the nearest integer, halves towards +infinity; the result
\* is an integer (not scaled), or the non-finite argument itself
Round(x) == IF IsFinite(x) THEN (x + S \div 2) \div S ELSE x

RECURSIVE SqrtSearch(_, _, _)
SqrtSearch(n, lo, hi) ==
    IF lo >= hi THEN lo
    ELSE LET mid == (lo + hi + 1) \div 2
         IN  IF mid * mid <= n THEN SqrtSearch(n, mid, hi)
                               ELSE SqrtSearch(n, lo, mid - 1)

\* floor of the square root of a natural
ISqrt(n) == SqrtSearch(n, 0, 46340)

\* Math.sqrt of a double below 21
FSqrt(x) ==
    IF IsNaN(x) THEN NaN
    ELSE IF x = PosInf THEN PosInf
    ELSE IF x < 0 THEN NaN
    ELSE ISqrt(x * S)

RECURSIVE ExpSeries(_, _, _, _)
\* the Taylor series of e^y from term k on, for |y| <= 1
ExpSeries(y, term, k, last) ==
    IF k > last \/ term = 0 THEN 0
    ELSE term + ExpSeries(y, MulDiv(term, y, S * k), k + 1, last)

RECURSIVE EPow(_)
\* e^n for an integer n
EPow(n) ==
    IF n = 0 THEN S
    ELSE IF n > 0 THEN MulDiv(EPow(n - 1), 27183, S)
    ELSE MulDiv(EPow(n + 1), 3679, S)

\* Math.exp; below e^-12 the result is 0 at this precision
FExp(x) ==
    IF IsNaN(x) THEN NaN
    ELSE IF x = PosInf THEN PosInf
    ELSE IF x = NegInf \/ x < -12 * S THEN 0
    ELSE LET n == Sgn(x) * (Abs(x) \div S)
             f == Sgn(x) * (Abs(x) % S)
         IN  MulDiv(EPow(n), ExpSeries(f, S, 1, 12), S)

RECURSIVE LnReduce(_, _)
\* <<k, m>> with x = m * 2^k and m in [1, 2)
LnReduce(x, k) ==
    IF x < S THEN LnReduce(2 * x, k - 1)
    ELSE IF x >= 2 * S THEN LnReduce(x \div 2, k + 1)
    ELSE <<k, x>>

RECURSIVE AtanhSeries(_, _, _, _)
AtanhSeries(u2, term, k, last) ==
    IF k > last \/ term = 0 THEN 0
    ELSE term \div k + AtanhSeries(u2, MulDiv(term, u2, S), k + 2, last)

\* Math.log of a double in (0, 1]
FLog(x) ==
    IF IsNaN(x) \/ x < 0 THEN NaN
    ELSE IF x = 0 THEN NegInf
    ELSE IF x = PosInf THEN PosInf
    ELSE LET km == LnReduce(x, 0)
             u  == MulDiv(km[2] - S, S, km[2] + S)
         IN  km[1] * 6931 + 2 * AtanhSeries(MulDiv(u, u, S), u, 1, 15)

\* ------------------------------------------------------------------------
\* AlgorithmQubits: numeric primitives
\* ------------------------------------------------------------------------

INITIAL_WEIGHT == 6000
FINAL_WEIGHT == 1800
FIRST_VOLATILITY == 385
P_LOW == 242
P_HIGH == S - P_LOW
NORMINV_A == <<-396968, 2209461, -2759285, 1383578, -306648, 25066>>
NORMINV_B == <<-544761, 1615858, -1556990, 668013, -132807>>
NORMINV_C == <<-78, -3224, -24008, -25497, 43747, 29382>>
NORMINV_D == <<78, 3225, 24451, 37544>>

sqr(x) == FMul(x, x)

RECURSIVE Horner(_, _, _, _)
\* (...((c[1]*x + c[2])*x + c[3])*x ... + c[n]), from coefficient i with acc
Horner(c, x, i, acc) ==
    IF i > Len(c) THEN acc
    ELSE Horner(c, x, i + 1, FAdd(FMul(acc, x), c[i]))

\* the coefficients of erf's exponent, innermost first
ERF_T == <<1709, -8222, 14885, -11352, 2789, -1863, 968, 3741, 10000>>

erf(z) ==
    IF IsNaN(z) THEN NaN
    ELSE IF IsInf(z) THEN Sgn(z) * S
    ELSE LET t   == FDiv(S, S + Abs(z) \div 2)
             \* beyond |z| = 10 the exponential is 0 at this precision
             ex  == IF Abs(z) > 10 * S THEN 0
                    ELSE FExp(FAdd(FSub(FNeg(sqr(z)), 12655),
                                   FMul(t, Horner(ERF_T, t, 2, ERF_T[1]))))
             ans == S - FMul(t, ex)
         IN  IF z >= 0 THEN ans ELSE -ans

erfc(z) == FSub(S, erf(z))

\* Math.sqrt(2.0), Math.sqrt(2.0 * Math.PI)
SQRT_2 == 14142
SQRT_2PI == 25066

refine(x, d) ==
    IF FGt(d, 0) /\ FLt(d, S)
    THEN LET e == FSub(FMul(5000, erfc(FDiv(FNeg(x), SQRT_2))), d)
             u == FMul(FMul(e, SQRT_2PI), FExp(FDiv(sqr(x), 2 * S)))
         IN  FSub(x, FDiv(u, FAdd(S, FDiv(FMul(x, u), 2 * S))))
    ELSE x

normsinv(p) ==
    IF FLe(p, 0) THEN NegInf
    ELSE IF FGe(p, S) THEN PosInf
    ELSE IF FLt(p, P_LOW)
    THEN LET q == FSqrt(FMul(-2 * S, FLog(p)))
         IN  refine(FDiv(Horner(NORMINV_C, q, 2, NORMINV_C[1]),
                         FAdd(FMul(Horner(NORMINV_D, q, 2, NORMINV_D[1]), q), S)), p)
    ELSE IF FLt(P_HIGH, p)
    THEN LET q == FSqrt(FMul(-2 * S, FLog(FSub(S, p))))
         IN  refine(FDiv(FNeg(Horner(NORMINV_C, q, 2, NORMINV_C[1])),
                         FAdd(FMul(Horner(NORMINV_D, q, 2, NORMINV_D[1]), q), S)), p)
    ELSE LET q == FSub(p, 5000)
             r == FMul(q, q)
         IN  refine(FDiv(FMul(Horner(NORMINV_A, r, 2, NORMINV_A[1]), q),
                         FAdd(FMul(Horner(NORMINV_B, r, 2, NORMINV_B[1]), r), S)), p)

\* r1, r2, v1, v2 are integers (ratings and volatilities as stored); the
\* square root is taken to one decimal
winProbability(r1, r2, v1, v2) ==
    IF IsNaN(r1) \/ IsNaN(r2) \/ IsNaN(v1) \/ IsNaN(v2) THEN NaN
    ELSE LET den10 == ISqrt(2 * (v1 * v1 + v2 * v2) * 100)
             z     == IF den10 = 0
                      THEN FDiv(Num(r1 - r2), 0)
                      ELSE MulDiv(r1 - r2, 10 * S, den10)
         IN  FMul(FAdd(erf(z), S), 5000)

\* ------------------------------------------------------------------------
\* AlgorithmQubits: runQubitsAlgorithm
\*
\* A CoderRating is a record; coderId, rating, volatility, numRatings and
\* score are integers as the Loader read them, the computed fields are
\* doubles, newRating and newVolatility are integers (Math.round) or NaN.
\* ------------------------------------------------------------------------

RECURSIVE SumOver(_, _, _)
\* the sum of f[i] for i in lo..hi
SumOver(f, lo, hi) == IF lo > hi THEN 0 ELSE f[lo] + SumOver(f, lo + 1, hi)

RECURSIVE FSumOver(_, _, _)
\* the same sum of doubles
FSumOver(f, lo, hi) == IF lo > hi THEN 0 ELSE FAdd(f[lo], FSumOver(f, lo + 1, hi))

\* the seeded values kept
KeepSeeds(c) == c

\* for (const c of coders) { if (c.numRatings === 0) { c.volatility = 515; c.rating = 1200; } }
Normalise(c) ==
    IF c.numRatings = 0 THEN [c EXCEPT !.volatility = 515, !.rating = 1200] ELSE c

\* Math.sqrt(vtemp / n + rtemp / (n - 1)), with rave = (sum of ratings) / n.
\* n * (rating - rave) = n * rating - sum is an integer, so n^2 * rtemp is
\* summed exactly; the quotient is taken in hundredths and the root in tenths.
matchStdDevEquals(coders) ==
    LET n       == Len(coders)
        sum     == SumOver([i \in 1..n |-> coders[i].rating], 1, n)
        vtemp   == SumOver([i \in 1..n |-> coders[i].volatility * coders[i].volatility], 1, n)
        rtempN2 == SumOver([i \in 1..n |-> (n * coders[i].rating - sum) * (n * coders[i].rating - sum)], 1, n)
        \* rtemp / (n - 1): 0/0 when n = 1
        rq      == IF n - 1 = 0 THEN FDiv(Num(rtempN2), 0)
                   ELSE MulDivNat(rtempN2, 100, n * n * (n - 1))
    IN  IF ~IsFinite(rq) THEN rq
        ELSE ISqrt((vtemp * 100) \div n + rq) * (S \div 10)

\* let est = 0.5; for (const cj of coders) est += winProbability(cj, ci)
expectedRankOf(coders, i) ==
    FAdd(5000, FSumOver([j \in 1..Len(coders) |->
                 winProbability(coders[j].rating, coders[i].rating,
                                coders[j].volatility, coders[i].volatility)],
               1, Len(coders)))

RECURSIVE MaxScan(_, _, _, _)
\* one scan for the highest score not ranked yet: <<max, count>>
MaxScan(coders, k, max, count) ==
    IF k > Len(coders) THEN <<max, count>>
    ELSE IF coders[k].score >= max /\ coders[k].actualRank = 0
         THEN MaxScan(coders, k + 1, coders[k].score,
                      IF coders[k].score = max THEN count + 1 ELSE 1)
         ELSE MaxScan(coders, k + 1, max, count)

\* the element of a one-element set: evaluates e once where a LET would
\* evaluate it at every use
Only(s) == CHOOSE x \in s : TRUE

\* tied coders all given the first place of their group
assignRankFirstOfGroup(coders, i, max, count) ==
    [k \in 1..Len(coders) |->
        IF coders[k].score = max
        THEN [coders[k] EXCEPT !.actualRank = Num(i) + S, !.actualPerformance = 0]
        ELSE coders[k]]

\* for (const c of coders) { if (c.score === max) { actualRank; actualPerformance } }
assignRank(coders, i, max, count) ==
    [k \in 1..Len(coders) |->
        IF coders[k].score = max
        THEN [coders[k] EXCEPT
                !.actualRank = Num(i) + 5000 + Num(count) \div 2,
                !.actualPerformance =
                    FNeg(normsinv(FDiv(Num(i) + Num(count) \div 2, Num(Len(coders)))))]
        ELSE coders[k]]

RECURSIVE RankLoopByOne(_, _)
\* the loop advancing by one place whatever the size of the group
RankLoopByOne(coders, i) ==
    IF i >= Len(coders) THEN coders
    ELSE Only({ Only({ RankLoopByOne(done, i + 1)
                       : done \in {assignRank(coders, i, scan[1], scan[2])} })
                : scan \in {MaxScan(coders, 1, NegInf, 0)} })


RECURSIVE RankLoop(_, _)
\* while (i < n) { scan; assign actualRank and actualPerformance; i += count }
RankLoop(coders, i) ==
    IF i >= Len(coders) THEN coders
    ELSE Only({ Only({ RankLoop(done, i + scan[2])
                       : done \in {assignRank(coders, i, scan[1], scan[2])} })
                : scan \in {MaxScan(coders, 1, NegInf, 0)} })

\* weight = (INITIAL_WEIGHT - FINAL_WEIGHT) / (numRatings + 1) + FINAL_WEIGHT,
\* weight = 1 / (1 - weight) - 1, then the two tier attenuations
weightOf(c) ==
    LET w0 == FAdd(FDiv(INITIAL_WEIGHT - FINAL_WEIGHT, Num(c.numRatings + 1)), FINAL_WEIGHT)
        w1 == FSub(FDiv(S, FSub(S, w0)), S)
        w2 == IF c.rating >= 2000 /\ c.rating < 2500 THEN FDiv(FMul(w1, 45000), 50000) ELSE w1
    IN  IF c.rating >= 2500 THEN FDiv(FMul(w2, 40000), 50000) ELSE w2

\* const cap = 150 + 1500 / (2 + c.numRatings)
capOf(c) == FAdd(Num(150), FDiv(Num(1500), Num(2 + c.numRatings)))

\* the cap applied to losses only
applyCapLossOnly(oldRating, newRating, cap) ==
    IF FGt(FSub(oldRating, newRating), cap) THEN FSub(oldRating, cap) ELSE newRating

\* the two cap tests, in the order of the code
applyCap(oldRating, newRating, cap) ==
    LET r1 == IF FGt(FSub(oldRating, newRating), cap) THEN FSub(oldRating, cap) ELSE newRating
    IN  IF FGt(FSub(r1, oldRating), cap) THEN FAdd(oldRating, cap) ELSE r1

\* if (newRating < 1) newRating = 1
applyFloor(newRating) == IF FLt(newRating, Num(1)) THEN Num(1) ELSE newRating

\* the new rating before Math.round
cappedRating(c, cf) ==
    LET diff        == FSub(c.actualPerformance, c.expectedPerformance)
        oldRating   == Num(c.rating)
        performedAs == FAdd(oldRating, FMul(diff, cf))
        weight      == weightOf(c)
        newRating   == FDiv(FAdd(oldRating, FMul(weight, performedAs)), FAdd(S, weight))
    IN  applyFloor(applyCap(oldRating, newRating, capOf(c)))

\* Math.round(Math.sqrt(sqr(volatility) / (1 + weight) + sqr(newRating - oldRating) / weight)):
\* the two quotients in hundredths, the root in tenths
volatilityOf(c, newRating) ==
    IF ~IsFinite(newRating) THEN NaN
    ELSE LET weight == weightOf(c)
             d10    == Abs(newRating - Num(c.rating)) \div (S \div 10)
             a100   == MulDivNat(c.volatility * c.volatility * 100, S, S + weight)
             b100   == MulDivNat(d10 * d10, S, weight)
         IN  (ISqrt(a100 + b100) + 5) \div 10

newVolatilityOf(c, newRating) ==
    IF c.numRatings # 0 THEN volatilityOf(c, newRating) ELSE FIRST_VOLATILITY

\* the per-participant update and the final numRatings += 1
updateCoder(c, cf) ==
    LET newRating == cappedRating(c, cf)
    IN  [c EXCEPT !.newRating = Round(newRating),
                  !.newVolatility = newVolatilityOf(c, newRating),
                  !.numRatings = c.numRatings + 1]

\* the fields the engine adds to a loaded CoderRating
Blank(c) ==
    [coderId |-> c.coderId, rating |-> c.rating, volatility |-> c.volatility,
     numRatings |-> c.numRatings, score |-> c.score,
     expectedRank |-> 0, expectedPerformance |-> 0,
     actualRank |-> 0, actualPerformance |-> 0,
     newRating |-> 0, newVolatility |-> 0]

\* the loop computing expectedRank and expectedPerformance
expectRanks(coders) ==
    [i \in 1..Len(coders) |->
        Only({ [coders[i] EXCEPT
                  !.expectedRank = est,
                  !.expectedPerformance =
                      FNeg(normsinv(FDiv(FSub(est, 5000), Num(Len(coders)))))]
               : est \in {expectedRankOf(coders, i)} })]

\* the last loop over the coders
updateCoders(ranked, cf) ==
    [i \in 1..Len(ranked) |-> Only({ updateCoder(c, cf) : c \in {ranked[i]} })]

runQubitsAlgorithm(coders) ==
    IF Len(coders) = 0 THEN coders
    ELSE Only({ Only({ updateCoders(ranked, cf)
                       : ranked \in {RankLoop(expectRanks(init), 0)},
                         cf \in {matchStdDevEquals(init)} })
                : init \in {[i \in 1..Len(coders) |-> Normalise(Blank(coders[i]))]} })

\* ------------------------------------------------------------------------
\* The store: the tables round, long_comp_result and algo_rating
\* ------------------------------------------------------------------------

\* SQL NULL in an integer column
NULL == -1

MaxCoder == 3
MaxRound == 2
\* calculate invocations started in one behaviour
MaxCalls == 2
\* store operations that raise in one behaviour
MaxFail == 1

Coders == 1..MaxCoder
RoundIds == 1..MaxRound
\* legacy ids a message may carry: the round ids and one contest id
LegacyIds == 1..(MaxRound + 1)
Procs == {"p1", "p2"}

VARIABLES
    round,      \* round_id -> [rated_ind, contest_id]
    lcr,        \* <<round_id, coder_id>> -> long_comp_result row (unique key)
    algo,       \* coder_id -> algo_rating row of type 3 (unique key)
    build,      \* what the database client does with a NaN argument
    inv,        \* the invocations of calculate, by process
    calls,      \* invocations started
    nfail,      \* store operations that raised
    bumps,      \* <<round_id, coder_id>> -> times a persist for the round raised num_ratings
    completed,  \* rounds for which a calculate has returned without error
    slate,      \* engine specification: the input
    outcome,    \* engine specification: the output, <<>> before the run
    batch,      \* harness: the message set handed to dataHandler
    task,       \* harness: where the callback of each message of the batch is
    events,     \* harness: what has happened, in order, as <<kind, offset>>
    handler,    \* harness: the promise dataHandler returned
    topic,      \* router: the topic of the message being handled
    message,    \* router: the decoded message being handled
    rpc,        \* router: where handleMessage is
    ops,        \* router: the service operations invoked, in order
    logged,     \* router: what it logged at warn or error level, in order
    cachedToken,  \* token cache: the token held, NoToken for none
    tokenExpiry,  \* token cache: the deadline of the token held
    clock,        \* token cache: Date.now()
    configured,   \* token cache: AUTH0_URL and AUTH0_CLIENT_ID are set
    issued,       \* token cache: per token issued, the time of the call it answered
    call          \* token cache: the calls of getM2Mtoken, by caller

vars == <<round, lcr, algo, build, inv, calls, nfail, bumps, completed, slate, outcome,
          batch, task, events, handler, topic, message, rpc, ops, logged,
          cachedToken, tokenExpiry, clock, configured, issued, call>>
storeVars == <<round, lcr, algo>>
engineVars == <<slate, outcome>>
calcVars == <<round, lcr, algo, build, inv, calls, nfail, bumps, completed>>
harnessVars == <<batch, task, events, handler>>
routerVars == <<topic, message, rpc, ops, logged>>
tokenVars == <<cachedToken, tokenExpiry, clock, configured, issued, call>>

\* no batch has been delivered
HarnessIdle ==
    /\ batch = <<>>
    /\ task = <<>>
    /\ events = <<>>
    /\ handler = "idle"

\* no message has been handed to the router
RouterIdle ==
    /\ topic = ""
    /\ message = <<>>
    /\ rpc = "idle"
    /\ ops = <<>>
    /\ logged = <<>>

\* getM2Mtoken has not been called
TokenIdle ==
    /\ cachedToken = 0
    /\ tokenExpiry = 0
    /\ clock = 1
    /\ configured = FALSE
    /\ issued = <<>>
    /\ call = <<>>

\* f left as it is
KeepRows(f, k, v) == f

\* f with the pair k -> v added or replaced
Put(f, k, v) == [x \in DOMAIN f \cup {k} |-> IF x = k THEN v ELSE f[x]]

\* prisma.round.findFirst({ where: { contest_id: legacyId } }): round ids
roundsOfContest(legacyId) == {r \in DOMAIN round : round[r].contest_id = legacyId}

\* the legacy id taken for the round id, without the lookup by contest_id
resolveByRoundId(legacyId) == legacyId

\* const roundId = roundRow ? roundRow.round_id : legacyId
resolveRound(legacyId) ==
    IF roundsOfContest(legacyId) # {}
    THEN CHOOSE r \in roundsOfContest(legacyId) : \A q \in roundsOfContest(legacyId) : r <= q
    ELSE legacyId

\* prisma.long_comp_result.findMany({ where: { round_id } }): coder -> row
lcrOfRound(roundId) ==
    [c \in {key[2] : key \in {k \in DOMAIN lcr : k[1] = roundId}} |-> lcr[<<roundId, c>>]]

\* ------------------------------------------------------------------------
\* helper.getFinalSubmissions
\* ------------------------------------------------------------------------

RECURSIVE Uniq(_, _)
\* _.uniq: first occurrences, in order
Uniq(seq, seen) ==
    IF seq = <<>> THEN <<>>
    ELSE IF Head(seq) \in seen THEN Uniq(Tail(seq), seen)
         ELSE <<Head(seq)>> \o Uniq(Tail(seq), seen \cup {Head(seq)})

RECURSIVE LastReviewed(_, _, _)
\* of a member's submissions the latest of those with a reviewSummation
LastReviewed(subs, i, best) ==
    IF i > Len(subs) THEN best
    ELSE LastReviewed(subs, i + 1,
                      IF subs[i].reviewSummation /\ (best = <<>> \/ subs[i].created >= best[1].created)
                      THEN <<subs[i]>> ELSE best)


RECURSIVE LastLatest(_, _, _)
\* _.last(_.sortBy(subs, created)): the sort is stable, so of the submissions
\* with the greatest created the one latest in the list
LastLatest(subs, i, best) ==
    IF i > Len(subs) THEN best
    ELSE LastLatest(subs, i + 1,
                    IF best = <<>> \/ subs[i].created >= best[1].created
                    THEN <<subs[i]>> ELSE best)

MemberSubs(submissions, m) == SelectSeq(submissions, LAMBDA s : s.memberId = m)

RECURSIVE KeepReviewed(_, _)
KeepReviewed(submissions, members) ==
    IF members = <<>> THEN <<>>
    ELSE LET last == LastLatest(MemberSubs(submissions, Head(members)), 1, <<>>)
         IN  (IF last # <<>> /\ last[1].reviewSummation THEN last ELSE <<>>)
               \o KeepReviewed(submissions, Tail(members))

getFinalSubmissions(submissions) ==
    KeepReviewed(submissions,
                 Uniq([i \in 1..Len(submissions) |-> submissions[i].memberId], {}))

Sub(m, t, rv) == [memberId |-> m, created |-> t, reviewSummation |-> rv]

\* what the submission API may return for a challenge
SubmissionLists ==
    { <<>>,
      <<Sub(3, 1, TRUE)>>,
      <<Sub(2, 1, TRUE), Sub(2, 2, FALSE), Sub(3, 2, TRUE), Sub(3, 1, FALSE)>> }

\* ------------------------------------------------------------------------
\* One invocation of calculate: its locals and where it is suspended
\* ------------------------------------------------------------------------

Store == [round |-> round, lcr |-> lcr, algo |-> algo]
NoStore == [round |-> <<>>, lcr |-> <<>>, algo |-> <<>>]

IdleInv ==
    [pc |-> "idle", legacyId |-> 0, roundId |-> 0,
     lcrEntries |-> <<>>,   \* the rows read before the reconciliation
     submissions |-> <<>>,  \* what getSubmissions returned
     flips |-> <<>>,        \* coders whose attended is still to be set to 'Y'
     results |-> <<>>,      \* loadCoderData: the rows found
     data |-> <<>>,         \* loadCoderData: the CoderRatings built so far
     pass |-> "",           \* which persistRatings call is running
     queue |-> <<>>,        \* persistRatings: its coders argument
     k |-> 0,               \* persistRatings: index of the current coder
     existingAlgo |-> <<>>, \* persistRatings: the row found, if any
     status |-> "",
     pre |-> NoStore,       \* the store when calculate was called
     ppre |-> NoStore,      \* the store when the running persistRatings was called
     wrote |-> FALSE,       \* the invocation has written to the store
     idem |-> FALSE,        \* called for a round already rated by a completed calculate
     fetchFailed |-> FALSE, \* getSubmissions or getFinalSubmissions raised
     runs |-> 0,            \* engine passes made by runRatingProcess
     failedAt |-> ""]

\* the awaits on the store
DbSteps == {"resolve", "readLcr", "flip", "load", "loadAlgo",
            "persistFind", "persistLcr", "persistAlgo", "persistRound"}

\* JSON cannot carry NaN or an infinity: the client raises or sends null
DbVal(x) == IF IsFinite(x) THEN x ELSE NULL

RECURSIVE SortDesc(_, _)
\* orderBy system_point_total desc over the coders cs of entries
SortDesc(entries, cs) ==
    IF cs = {} THEN <<>>
    ELSE LET top == CHOOSE c \in cs : \A d \in cs :
                        \/ entries[c].system_point_total > entries[d].system_point_total
                        \/ /\ entries[c].system_point_total = entries[d].system_point_total
                           /\ c <= d
         IN  <<top>> \o SortDesc(entries, cs \ {top})

\* the findMany of loadCoderData
loadResults(roundId) ==
    LET entries == lcrOfRound(roundId)
        unrated == {c \in DOMAIN entries :
                       /\ entries[c].attended \in {"Y", "y"}
                       /\ entries[c].new_rating = NULL
                       /\ entries[c].new_vol = NULL}
        sorted  == SortDesc(entries, unrated)
    IN  [i \in 1..Len(sorted) |->
            [coder_id |-> sorted[i],
             system_point_total |-> entries[sorted[i]].system_point_total]]

\* x ?? 0 on a column
OrZero(x) == IF x = NULL THEN 0 ELSE x

\* the CoderRating built from the result row alone, the algo_rating row not read
loadCoderNoRow(r) ==
    [coderId |-> r.coder_id, rating |-> 0, volatility |-> 0,
     numRatings |-> 0, score |-> OrZero(r.system_point_total)]


\* the CoderRating loadCoderData builds from a result row
loadCoder(r) ==
    IF r.coder_id \in DOMAIN algo
    THEN [coderId |-> r.coder_id,
          rating |-> OrZero(algo[r.coder_id].rating),
          volatility |-> OrZero(algo[r.coder_id].vol),
          numRatings |-> algo[r.coder_id].num_ratings,
          score |-> OrZero(r.system_point_total)]
    ELSE [coderId |-> r.coder_id, rating |-> 0, volatility |-> 0,
          numRatings |-> 0, score |-> OrZero(r.system_point_total)]

processMarathonRatingsProvisional(coders) ==
    IF Len(coders) = 0 THEN coders ELSE runQubitsAlgorithm(coders)

\* the second run made over every loaded coder
nonProvisionalOverAll(rec, st) ==
    IF Len(SelectSeq(rec.data, LAMBDA c : c.numRatings > 0)) > 0
    THEN Only({ [rec EXCEPT !.pc = "persistFind", !.pass = "nonprov", !.k = 1,
                            !.queue = SelectSeq(rated, LAMBDA c : c.numRatings > 1),
                            !.ppre = st, !.runs = rec.runs + 1]
                : rated \in {processMarathonRatingsProvisional(rec.data)} })
    ELSE [rec EXCEPT !.pc = "done", !.status = "SUCCESS"]

\* the non-provisional run filtering the slate the provisional run incremented
\* in place: every participant has numRatings > 0 by then
nonProvisionalAfterIncrement(rec, st) ==
    Only({ [rec EXCEPT !.pc = "persistFind", !.pass = "nonprov", !.k = 1,
                       !.queue = ratedNonProvData, !.ppre = st,
                       !.runs = rec.runs + 1]
           : ratedNonProvData \in {processMarathonRatingsProvisional(
                 [i \in 1..Len(rec.data) |->
                     [rec.data[i] EXCEPT !.numRatings = @ + 1]])} })


\* runRatingProcess from the non-provisional run on: rec after the step, st the store
nonProvisional(rec, st) ==
    LET nonProvData == SelectSeq(rec.data, LAMBDA c : c.numRatings > 0)
    IN  IF Len(nonProvData) > 0
        THEN Only({ [rec EXCEPT !.pc = "persistFind", !.pass = "nonprov", !.k = 1,
                                !.queue = ratedNonProvData, !.ppre = st,
                                !.runs = rec.runs + 1]
                    : ratedNonProvData \in {processMarathonRatingsProvisional(nonProvData)} })
        ELSE [rec EXCEPT !.pc = "done", !.status = "SUCCESS"]

\* no first-timer kept from the provisional run
firstTimersDropped(data) == <<>>

\* const firstTimers = ratedProvData.filter((c) => c.numRatings === 1)
firstTimersOf(data) ==
    Only({ SelectSeq(ratedProvData, LAMBDA c : c.numRatings = 1)
           : ratedProvData \in {processMarathonRatingsProvisional(data)} })

\* runRatingProcess without the test for an empty slate
provisionalUnguarded(rec, st) ==
    Only({ IF Len(firstTimers) > 0
           THEN [rec EXCEPT !.pc = "persistFind", !.pass = "prov", !.k = 1,
                            !.queue = firstTimers, !.ppre = st, !.runs = 1]
           ELSE nonProvisional([rec EXCEPT !.runs = 1], st)
           : firstTimers \in {firstTimersOf(rec.data)} })

\* runRatingProcess going to the non-provisional run with no first-timer persisted
provisionalPersistsNone(rec, st) ==
    IF Len(rec.data) = 0
    THEN [rec EXCEPT !.pc = "done", !.status = "ALREADY_CALCULATED"]
    ELSE nonProvisional([rec EXCEPT !.runs = 1], st)


\* runRatingProcess from the loaded data to its first await
provisional(rec, st) ==
    IF Len(rec.data) = 0
    THEN [rec EXCEPT !.pc = "done", !.status = "ALREADY_CALCULATED"]
    ELSE Only({ IF Len(firstTimers) > 0
                THEN [rec EXCEPT !.pc = "persistFind", !.pass = "prov", !.k = 1,
                                 !.queue = firstTimers, !.ppre = st, !.runs = 1]
                ELSE nonProvisional([rec EXCEPT !.runs = 1], st)
                : firstTimers \in {firstTimersOf(rec.data)} })

\* the rounds with a calculate that has returned
completedAfter(rec) ==
    IF rec.pc = "done" THEN completed \cup {rec.roundId} ELSE completed

\* ------------------------------------------------------------------------
\* calculate, one action per await
\* ------------------------------------------------------------------------

\* calculate(challengeId, legacyId) is called
Start(p, legacyId) ==
    /\ inv[p].pc \in {"idle", "done", "failed"}
    /\ calls < MaxCalls
    /\ calls' = calls + 1
    /\ inv' = [inv EXCEPT ![p] =
                 [IdleInv EXCEPT !.pc = "resolve", !.legacyId = legacyId,
                                 !.pre = Store,
                                 !.idem = LET r == resolveRound(legacyId)
                                          IN  /\ r \in completed
                                              /\ r \in DOMAIN round
                                              /\ round[r].rated_ind = 1]]
    /\ UNCHANGED <<storeVars, build, nfail, bumps, completed, engineVars, harnessVars, routerVars, tokenVars>>

\* round.findFirst({ where: { contest_id: legacyId } })
Resolve(p) ==
    /\ inv[p].pc = "resolve"
    /\ inv' = [inv EXCEPT ![p].pc = "readLcr",
                          ![p].roundId = resolveRound(inv[p].legacyId)]
    /\ UNCHANGED <<storeVars, build, calls, nfail, bumps, completed, engineVars, harnessVars, routerVars, tokenVars>>

\* long_comp_result.findMany({ where: { round_id } })
ReadLcr(p) ==
    /\ inv[p].pc = "readLcr"
    /\ inv' = [inv EXCEPT ![p].pc = "fetch",
                          ![p].lcrEntries = lcrOfRound(inv[p].roundId)]
    /\ UNCHANGED <<storeVars, build, calls, nfail, bumps, completed, engineVars, harnessVars, routerVars, tokenVars>>

\* the members of the final submissions whose snapshot row has attended = 'N'
toFlip(entries, finals) ==
    LET hit == SelectSeq(finals, LAMBDA f : /\ f.memberId \in DOMAIN entries
                                            /\ entries[f.memberId].attended = "N")
    IN  [i \in 1..Len(hit) |-> hit[i].memberId]

\* getSubmissions and getFinalSubmissions return
FetchOk(p) ==
    /\ inv[p].pc = "fetch"
    /\ \E submissions \in SubmissionLists :
         LET fl == toFlip(inv[p].lcrEntries, getFinalSubmissions(submissions))
         IN  inv' = [inv EXCEPT ![p].pc = IF fl = <<>> THEN "load" ELSE "flip",
                                ![p].submissions = submissions,
                                ![p].flips = fl]
    /\ UNCHANGED <<storeVars, build, calls, nfail, bumps, completed, engineVars, harnessVars, routerVars, tokenVars>>

\* the failure of the fetch leaves calculate through the outer catch
FetchFailsRaises(p) ==
    /\ inv[p].pc = "fetch"
    /\ inv' = [inv EXCEPT ![p].pc = "failed", ![p].status = "ERROR",
                          ![p].fetchFailed = TRUE, ![p].failedAt = "fetch"]
    /\ UNCHANGED <<storeVars, build, calls, nfail, bumps, completed, engineVars, harnessVars, routerVars, tokenVars>>

\* getSubmissions (its token request included) or getFinalSubmissions raises:
\* the inner catch logs it and the calculation continues
FetchFails(p) ==
    /\ inv[p].pc = "fetch"
    /\ inv' = [inv EXCEPT ![p].pc = "load", ![p].fetchFailed = TRUE]
    /\ UNCHANGED <<storeVars, build, calls, nfail, bumps, completed, engineVars, harnessVars, routerVars, tokenVars>>

\* long_comp_result.updateMany({ data: { attended: 'Y' } }) for one member
Flip(p) ==
    /\ inv[p].pc = "flip"
    /\ LET c   == Head(inv[p].flips)
           key == <<inv[p].roundId, c>>
       IN  lcr' = IF key \in DOMAIN lcr
                  THEN [lcr EXCEPT ![key].attended = "Y"] ELSE lcr
    /\ inv' = [inv EXCEPT ![p].flips = Tail(inv[p].flips),
                          ![p].wrote = TRUE,
                          ![p].pc = IF Tail(inv[p].flips) = <<>> THEN "load" ELSE "flip"]
    /\ UNCHANGED <<round, algo, build, calls, nfail, bumps, completed, engineVars, harnessVars, routerVars, tokenVars>>

\* loadCoderData: the findMany; with no row found runRatingProcess returns
Load(p) ==
    /\ inv[p].pc = "load"
    /\ LET found == loadResults(inv[p].roundId)
           rec   == [inv[p] EXCEPT !.results = found, !.data = <<>>]
       IN  /\ inv' = [inv EXCEPT ![p] = IF found = <<>> THEN provisional(rec, Store)
                                        ELSE [rec EXCEPT !.pc = "loadAlgo"]]
           /\ completed' = completedAfter(inv'[p])
    /\ UNCHANGED <<storeVars, build, calls, nfail, bumps, engineVars, harnessVars, routerVars, tokenVars>>

\* loadCoderData: one algo_rating.findFirst; after the last the provisional run
LoadAlgo(p) ==
    /\ inv[p].pc = "loadAlgo"
    /\ LET r   == inv[p].results[Len(inv[p].data) + 1]
           rec == [inv[p] EXCEPT !.data = Append(inv[p].data, loadCoder(r))]
       IN  /\ inv' = [inv EXCEPT ![p] = IF Len(rec.data) = Len(rec.results)
                                        THEN provisional(rec, Store) ELSE rec]
           /\ completed' = completedAfter(inv'[p])
    /\ UNCHANGED <<storeVars, build, calls, nfail, bumps, engineVars, harnessVars, routerVars, tokenVars>>

\* persistRatings going from the lookup to the upsert, the result row not written
PersistFindSkipsResult(p) ==
    /\ inv[p].pc = "persistFind"
    /\ LET c == inv[p].queue[inv[p].k].coderId
       IN  inv' = [inv EXCEPT ![p].pc = "persistAlgo",
                              ![p].existingAlgo = IF c \in DOMAIN algo
                                                  THEN <<algo[c]>> ELSE <<>>]
    /\ UNCHANGED <<storeVars, build, calls, nfail, bumps, completed, engineVars, harnessVars, routerVars, tokenVars>>


\* persistRatings: algo_rating.findFirst for the current coder
PersistFind(p) ==
    /\ inv[p].pc = "persistFind"
    /\ LET c == inv[p].queue[inv[p].k].coderId
       IN  inv' = [inv EXCEPT ![p].pc = "persistLcr",
                              ![p].existingAlgo = IF c \in DOMAIN algo
                                                  THEN <<algo[c]>> ELSE <<>>]
    /\ UNCHANGED <<storeVars, build, calls, nfail, bumps, completed, engineVars, harnessVars, routerVars, tokenVars>>

\* the current coder's values cannot be sent as numbers
unsendable(rec) ==
    \/ ~IsFinite(rec.queue[rec.k].newRating)
    \/ ~IsFinite(rec.queue[rec.k].newVolatility)

\* the result row written with the rating the coder came with
PersistLcrOldRating(p) ==
    /\ inv[p].pc = "persistLcr"
    /\ ~(unsendable(inv[p]) /\ build = "nan_rejected")
    /\ LET coder == inv[p].queue[inv[p].k]
           key   == <<inv[p].roundId, coder.coderId>>
       IN  lcr' = IF key \in DOMAIN lcr
                  THEN [lcr EXCEPT ![key].rated_ind = 1,
                                   ![key].new_rating = coder.rating,
                                   ![key].new_vol = coder.volatility]
                  ELSE lcr
    /\ inv' = [inv EXCEPT ![p].pc = "persistAlgo", ![p].wrote = TRUE]
    /\ UNCHANGED <<round, algo, build, calls, nfail, bumps, completed, engineVars, harnessVars, routerVars, tokenVars>>


\* persistRatings: long_comp_result.updateMany for the current coder
PersistLcr(p) ==
    /\ inv[p].pc = "persistLcr"
    /\ ~(unsendable(inv[p]) /\ build = "nan_rejected")
    /\ LET coder == inv[p].queue[inv[p].k]
           key   == <<inv[p].roundId, coder.coderId>>
           ex    == inv[p].existingAlgo
       IN  lcr' = IF key \in DOMAIN lcr
                  THEN [lcr EXCEPT ![key].rated_ind = 1,
                                   ![key].old_rating = IF ex = <<>> THEN NULL ELSE ex[1].rating,
                                   ![key].old_vol = IF ex = <<>> THEN NULL ELSE ex[1].vol,
                                   ![key].new_rating = DbVal(coder.newRating),
                                   ![key].new_vol = DbVal(coder.newVolatility)]
                  ELSE lcr
    /\ inv' = [inv EXCEPT ![p].pc = "persistAlgo", ![p].wrote = TRUE]
    /\ UNCHANGED <<round, algo, build, calls, nfail, bumps, completed, engineVars, harnessVars, routerVars, tokenVars>>

\* the client refuses the NaN argument: the update raises, calculate rethrows
PersistLcrRejected(p) ==
    /\ inv[p].pc = "persistLcr"
    /\ unsendable(inv[p]) /\ build = "nan_rejected"
    /\ inv' = [inv EXCEPT ![p].pc = "failed", ![p].status = "ERROR",
                          ![p].failedAt = "persistLcr"]
    /\ UNCHANGED <<storeVars, build, calls, nfail, bumps, completed, engineVars, harnessVars, routerVars, tokenVars>>

\* persistRatings: algo_rating.updateMany with increment, or create
PersistAlgo(p) ==
    /\ inv[p].pc = "persistAlgo"
    /\ LET coder == inv[p].queue[inv[p].k]
           c     == coder.coderId
           r     == inv[p].roundId
       IN  /\ inv[p].existingAlgo # <<>> \/ c \notin DOMAIN algo
           /\ algo' =
                IF inv[p].existingAlgo # <<>>
                THEN IF c \in DOMAIN algo
                     THEN [algo EXCEPT ![c].rating = DbVal(coder.newRating),
                                       ![c].vol = DbVal(coder.newVolatility),
                                       ![c].round_id = r,
                                       ![c].num_ratings = @ + 1,
                                       ![c].last_rated_round_id = r]
                     ELSE algo
                ELSE Put(algo, c,
                         [rating |-> DbVal(coder.newRating),
                          vol |-> DbVal(coder.newVolatility),
                          num_ratings |-> 1,
                          round_id |-> r,
                          highest_rating |-> DbVal(coder.newRating),
                          lowest_rating |-> DbVal(coder.newRating),
                          first_rated_round_id |-> r,
                          last_rated_round_id |-> r])
           /\ bumps' = [bumps EXCEPT ![<<r, c>>] = @ + 1]
    /\ inv' = [inv EXCEPT ![p].wrote = TRUE,
                          ![p].k = inv[p].k + 1,
                          ![p].pc = IF inv[p].k < Len(inv[p].queue)
                                    THEN "persistFind" ELSE "persistRound"]
    /\ UNCHANGED <<round, lcr, build, calls, nfail, completed, engineVars, harnessVars, routerVars, tokenVars>>

\* persistRatings: round.updateMany({ data: { rated_ind: 1 } }), then the code
\* of runRatingProcess that follows the call
PersistRound(p) ==
    /\ inv[p].pc = "persistRound"
    /\ round' = IF inv[p].roundId \in DOMAIN round
                THEN [round EXCEPT ![inv[p].roundId].rated_ind = 1] ELSE round
    /\ LET rec == [inv[p] EXCEPT !.wrote = TRUE]
           st  == [round |-> round', lcr |-> lcr, algo |-> algo]
       IN  inv' = [inv EXCEPT ![p] =
                     IF rec.pass = "prov" THEN nonProvisional(rec, st)
                     ELSE [rec EXCEPT !.pc = "done", !.status = "SUCCESS"]]
    /\ completed' = completedAfter(inv'[p])
    /\ UNCHANGED <<lcr, algo, build, calls, nfail, bumps, engineVars, harnessVars, routerVars, tokenVars>>

\* a store operation raises: inside the reconciliation it is logged and the
\* calculation goes on, anywhere else calculate rethrows
Fail(p) ==
    /\ inv[p].pc \in DbSteps
    /\ nfail < MaxFail
    /\ nfail' = nfail + 1
    /\ inv' = [inv EXCEPT ![p] =
                 IF inv[p].pc = "flip"
                 THEN [inv[p] EXCEPT !.pc = "load"]
                 ELSE [inv[p] EXCEPT !.pc = "failed", !.status = "ERROR",
                                     !.failedAt = inv[p].pc]]
    /\ UNCHANGED <<storeVars, build, calls, bumps, completed, engineVars, harnessVars, routerVars, tokenVars>>

\* ------------------------------------------------------------------------
\* The entry point by round id: calculateMarathonRatings(roundId), run from
\* its call to its return on a store st
\* ------------------------------------------------------------------------

RECURSIVE InKeyOrder(_)
\* the rows of a findMany without orderBy, in primary-key order
InKeyOrder(cs) ==
    IF cs = {} THEN <<>>
    ELSE LET low == CHOOSE c \in cs : \A d \in cs : c <= d
         IN  <<low>> \o InKeyOrder(cs \ {low})

\* loadCoderData of the entry point by round id: the rows not yet rated and
\* attended, each with the values of the coder's algo_rating row when there
\* is one and of the result row otherwise
loadCoderDataByRound(st, roundId) ==
    LET found == {key \in DOMAIN st.lcr :
                     /\ key[1] = roundId
                     /\ st.lcr[key].rated_ind = 0
                     /\ st.lcr[key].attended \in {"Y", "y"}}
        order == InKeyOrder({key[2] : key \in found})
    IN  [i \in 1..Len(order) |->
            LET c == order[i]
                r == st.lcr[<<roundId, c>>]
            IN  [coderId |-> c,
                 rating |-> IF c \in DOMAIN st.algo /\ st.algo[c].rating # NULL
                            THEN st.algo[c].rating ELSE OrZero(r.old_rating),
                 volatility |-> IF c \in DOMAIN st.algo /\ st.algo[c].vol # NULL
                                THEN st.algo[c].vol ELSE OrZero(r.old_vol),
                 numRatings |-> IF c \in DOMAIN st.algo THEN st.algo[c].num_ratings ELSE 0,
                 score |-> OrZero(r.system_point_total)]]

\* processMarathonRatings: the first-timers of a run over every coder, then
\* the experienced coders of a run of their own
processMarathonRatings(coders) ==
    IF Len(coders) = 0 THEN coders
    ELSE LET nonProv == SelectSeq(coders, LAMBDA c : c.numRatings > 0)
         IN  SelectSeq(runQubitsAlgorithm(coders), LAMBDA c : c.numRatings = 1)
             \o (IF Len(nonProv) > 0 THEN runQubitsAlgorithm(nonProv) ELSE <<>>)

RECURSIVE persistRatingsByRound(_, _, _, _)
\* persistRatings of the entry point by round id, from the k-th coder on: the
\* store it leaves and how it ends
persistRatingsByRound(st, roundId, coders, k) ==
    IF k > Len(coders)
    THEN [store |-> [st EXCEPT !.round =
                        IF roundId \in DOMAIN st.round
                        THEN [st.round EXCEPT ![roundId].rated_ind = 1] ELSE st.round],
          status |-> "SUCCESS"]
    ELSE LET coder == coders[k]
             c     == coder.coderId
             key   == <<roundId, c>>
             sent  == IsFinite(coder.newRating) /\ IsFinite(coder.newVolatility)
         IN  IF ~sent /\ build = "nan_rejected"
             THEN [store |-> st, status |-> "ERROR"]
             ELSE LET lcr1  == IF key \in DOMAIN st.lcr
                               THEN [st.lcr EXCEPT ![key].new_rating = DbVal(coder.newRating),
                                                   ![key].new_vol = DbVal(coder.newVolatility),
                                                   ![key].rated_ind = 1]
                               ELSE st.lcr
                      algo1 == IF c \in DOMAIN st.algo
                               THEN LET ex == st.algo[c]
                                        hi == /\ IsFinite(coder.newRating)
                                              /\ coder.newRating > OrZero(ex.highest_rating)
                                        lo == /\ IsFinite(coder.newRating)
                                              /\ coder.newRating < (IF ex.lowest_rating = NULL
                                                                    THEN 9999 ELSE ex.lowest_rating)
                                    IN  [st.algo EXCEPT
                                           ![c].rating = DbVal(coder.newRating),
                                           ![c].vol = DbVal(coder.newVolatility),
                                           ![c].num_ratings = coder.numRatings + 1,
                                           ![c].last_rated_round_id = roundId,
                                           ![c].highest_rating = IF hi THEN coder.newRating ELSE @,
                                           ![c].lowest_rating = IF lo THEN coder.newRating ELSE @]
                               ELSE Put(st.algo, c,
                                        [rating |-> DbVal(coder.newRating),
                                         vol |-> DbVal(coder.newVolatility),
                                         num_ratings |-> 1,
                                         round_id |-> NULL,
                                         highest_rating |-> DbVal(coder.newRating),
                                         lowest_rating |-> DbVal(coder.newRating),
                                         first_rated_round_id |-> roundId,
                                         last_rated_round_id |-> roundId])
                  IN  persistRatingsByRound([st EXCEPT !.lcr = lcr1, !.algo = algo1],
                                            roundId, coders, k + 1)

\* calculateMarathonRatings(roundId): no coder found is reported as skipped,
\* which is ALREADY_CALCULATED of calculate; a raise is rethrown
calculateMarathonRatings(st, roundId) ==
    Only({ IF Len(coders) = 0
           THEN [store |-> st, status |-> "ALREADY_CALCULATED"]
           ELSE persistRatingsByRound(st, roundId, processMarathonRatings(coders), 1)
           : coders \in {loadCoderDataByRound(st, roundId)} })


\* ------------------------------------------------------------------------
\* Initial stores
\* ------------------------------------------------------------------------

LcrRow(att, score) ==
    [attended |-> att, system_point_total |-> score,
     old_rating |-> NULL, old_vol |-> NULL,
     new_rating |-> NULL, new_vol |-> NULL, rated_ind |-> 0]

AlgoRow(rating, vol, n, hi, lo) ==
    [rating |-> rating, vol |-> vol, num_ratings |-> n, round_id |-> NULL,
     highest_rating |-> hi, lowest_rating |-> lo,
     first_rated_round_id |-> NULL, last_rated_round_id |-> NULL]

\* round 1 carries a contest id of its own, the others are found by round id
InitRound ==
    [r \in RoundIds |->
        [rated_ind |-> 0, contest_id |-> IF r = 1 THEN MaxRound + 1 ELSE NULL]]

\* round 1: every coder registered, any of them attended, scores descending
\* by coder id; round 2: coders 1 and 2 registered, scores ascending
InitLcrs ==
    { [key \in (({1} \X Coders) \cup ({2} \X {1, 2})) |->
          IF key[1] = 1 THEN LcrRow(att1[key[2]], MaxCoder + 1 - key[2])
          ELSE LcrRow(IF key[2] = 1 THEN "y" ELSE att2, key[2])]
      : att1 \in [Coders -> {"Y", "N"}], att2 \in {"Y", "N"} }

\* coder 1 is rated; coder 2 is rated, has a row never rated, with values or
\* with its nullable columns NULL, or has no row; the others have no row
InitAlgos ==
    { [c \in {1} |-> AlgoRow(1500, 400, 5, 1550, 1400)],
      [c \in {1, 2} |-> IF c = 1 THEN AlgoRow(1500, 400, 5, 1550, 1400)
                        ELSE AlgoRow(1350, 450, 3, 1400, 1300)],
      [c \in {1, 2} |-> IF c = 1 THEN AlgoRow(1500, 400, 5, 1550, 1400)
                        ELSE AlgoRow(900, 300, 0, NULL, NULL)],
      [c \in {1, 2} |-> IF c = 1 THEN AlgoRow(1500, 400, 5, 1550, 1400)
                        ELSE AlgoRow(NULL, NULL, 0, NULL, NULL)] }

Builds == {"nan_rejected", "nan_as_null"}

Init ==
    /\ round = InitRound
    /\ lcr \in InitLcrs
    /\ algo \in InitAlgos
    /\ build \in Builds
    /\ inv = [p \in Procs |-> IdleInv]
    /\ calls = 0
    /\ nfail = 0
    /\ bumps = [key \in LegacyIds \X Coders |-> 0]
    /\ completed = {}
    /\ slate = <<>>
    /\ outcome = <<>>
    /\ HarnessIdle
    /\ RouterIdle
    /\ TokenIdle

\* the processor handles one message at a time
Main == "p1"

Next ==
    \/ \E legacyId \in LegacyIds : Start(Main, legacyId)
    \/ Resolve(Main)
    \/ ReadLcr(Main)
    \/ FetchOk(Main)
    \/ FetchFails(Main)
    \/ Flip(Main)
    \/ Load(Main)
    \/ LoadAlgo(Main)
    \/ PersistFind(Main)
    \/ PersistLcr(Main)
    \/ PersistLcrRejected(Main)
    \/ PersistAlgo(Main)
    \/ PersistRound(Main)
    \/ Fail(Main)

Spec == Init /\ [][Next]_vars

\* ------------------------------------------------------------------------
\* The seeded store, and calculate of its round
\* ------------------------------------------------------------------------

\* the round and the coders the seed creates
SeedRound == 10001
SeedCoders == 1001..1005

\* system_point_total of the seeded results, in hundredths
seedScore(c) ==
    CASE c = 1001 -> 9550
      [] c = 1002 -> 8825
      [] c = 1003 -> 7200
      [] c = 1004 -> 6075
      [] OTHER    -> 4500

\* the algo_rating rows the seed creates for coders 1001 and 1002
SeedAlgo ==
    [c \in {1001, 1002} |->
        IF c = 1001
        THEN [rating |-> 1500, vol |-> 400, num_ratings |-> 5, round_id |-> 9999,
              highest_rating |-> 1550, lowest_rating |-> 1400,
              first_rated_round_id |-> 9000, last_rated_round_id |-> 9999]
        ELSE [rating |-> 1350, vol |-> 450, num_ratings |-> 3, round_id |-> 9998,
              highest_rating |-> 1400, lowest_rating |-> 1300,
              first_rated_round_id |-> 9000, last_rated_round_id |-> 9998]]

InitSeed ==
    /\ round = [r \in {SeedRound} |-> [rated_ind |-> 0, contest_id |-> NULL]]
    /\ lcr = [key \in {SeedRound} \X SeedCoders |-> LcrRow("Y", seedScore(key[2]))]
    /\ algo = SeedAlgo
    /\ build \in Builds
    /\ inv = [p \in Procs |-> IdleInv]
    /\ calls = 0
    /\ nfail = 0
    /\ bumps = [key \in {SeedRound} \X SeedCoders |-> 0]
    /\ completed = {}
    /\ slate = <<>>
    /\ outcome = <<>>
    /\ HarnessIdle
    /\ RouterIdle
    /\ TokenIdle

\* calculate of the seeded round; no row is absent, so no attendance is written
NextSeed ==
    \/ Start(Main, SeedRound)
    \/ Resolve(Main)
    \/ ReadLcr(Main)
    \/ FetchOk(Main)
    \/ FetchFails(Main)
    \/ Load(Main)
    \/ LoadAlgo(Main)
    \/ PersistFind(Main)
    \/ PersistLcr(Main)
    \/ PersistLcrRejected(Main)
    \/ PersistAlgo(Main)
    \/ PersistRound(Main)
    \/ Fail(Main)

SpecSeed == InitSeed /\ [][NextSeed]_vars

\* ------------------------------------------------------------------------
\* The engine on its own: every slate of a bounded family, run once
\* ------------------------------------------------------------------------

\* participants of a slate
MaxSlate == 3
\* distinct scores
MaxScore == 3

\* <<rating, volatility, numRatings>> as loadCoderData can build them: a new
\* coder without a row and one with a row never rated, and rated coders in
\* each weight tier and at each end of the scale
Profiles ==
    { <<0, 0, 0>>, <<900, 300, 0>>,
      <<500, 400, 6>>, <<2500, 400, 6>>,
      <<1500, 400, 5>>, <<2100, 300, 14>>, <<10, 300, 2>> }

Slates ==
    UNION { { [i \in 1..n |->
                 [coderId |-> i, rating |-> pf[i][1], volatility |-> pf[i][2],
                  numRatings |-> pf[i][3], score |-> sc[i]]]
              : pf \in [1..n -> Profiles], sc \in [1..n -> 1..MaxScore] }
            : n \in 1..MaxSlate }

InitEngine ==
    /\ slate \in Slates
    /\ outcome = <<>>
    /\ round = InitRound
    /\ lcr = <<>>
    /\ algo = <<>>
    /\ build = "nan_rejected"
    /\ inv = [p \in Procs |-> IdleInv]
    /\ calls = 0
    /\ nfail = 0
    /\ bumps = [key \in LegacyIds \X Coders |-> 0]
    /\ completed = {}
    /\ HarnessIdle
    /\ RouterIdle
    /\ TokenIdle

\* processMarathonRatings / runQubitsAlgorithm on a copy of the slate
RunEngine ==
    /\ outcome = <<>>
    /\ outcome' = runQubitsAlgorithm(slate)
    /\ UNCHANGED <<calcVars, slate, harnessVars, routerVars, tokenVars>>

NextEngine == RunEngine

SpecEngine == InitEngine /\ [][NextEngine]_vars

\* ------------------------------------------------------------------------
\* The consumer harness: dataHandler on one delivered message set
\* ------------------------------------------------------------------------

\* messages of a delivered message set
MaxBatch == 3

\* a message by what its handling does: its value is not JSON ("malformed");
\* the router finishes before its first await, returning ("ignored") or raising
\* ("throws"); the router awaits an operation ("work")
MessageKinds == {"malformed", "ignored", "throws", "work"}

Batches == UNION { [1..n -> MessageKinds] : n \in 1..MaxBatch }

\* the calculation and the store take no part
CalcUnused ==
    /\ round = InitRound
    /\ lcr = <<>>
    /\ algo = <<>>
    /\ build = "nan_rejected"
    /\ inv = [p \in Procs |-> IdleInv]
    /\ calls = 0
    /\ nfail = 0
    /\ bumps = [key \in LegacyIds \X Coders |-> 0]
    /\ completed = {}
    /\ slate = <<>>
    /\ outcome = <<>>

\* the callback of message i up to its first suspension: JSON.parse, then the
\* call of the router, which runs to its own first await
syncRun(kind, i) ==
    CASE kind = "malformed" -> << <<"invalid", i>> >>
      [] kind = "ignored"   -> << <<"start", i>>, <<"return", i>> >>
      [] kind = "throws"    -> << <<"start", i>>, <<"raise", i>> >>
      [] OTHER              -> << <<"start", i>> >>

\* the commit as the last statement of the try block, with no finally
settleNoFinally(i, raised) ==
    IF raised THEN << <<"error", i>> >> ELSE << <<"commit", i>> >>

\* the callback of message i after its await: catch logs what was raised,
\* finally commits the offset
settle(i, raised) ==
    IF raised THEN << <<"error", i>>, <<"commit", i>> >>
    ELSE << <<"commit", i>> >>

RECURSIVE mapRun(_, _)
\* messageSet.map(async (m) => ...): the callbacks run one after the other, each
\* up to its first suspension
mapRun(b, i) ==
    IF i > Len(b) THEN <<>> ELSE syncRun(b[i], i) \o mapRun(b, i + 1)

RECURSIVE resumeRun(_, _)
\* the callbacks whose await found a settled promise resume, in order, once
\* the map has run
resumeRun(b, i) ==
    IF i > Len(b) THEN <<>>
    ELSE (CASE b[i] = "ignored" -> settle(i, FALSE)
            [] b[i] = "throws"  -> settle(i, TRUE)
            [] OTHER            -> <<>>) \o resumeRun(b, i + 1)

\* the consumer calls dataHandler(messageSet, topic, partition)
Deliver(b) ==
    /\ handler = "idle"
    /\ batch' = b
    /\ task' = [i \in 1..Len(b) |->
                  CASE b[i] = "malformed" -> "dropped"
                    [] b[i] = "work"      -> "inflight"
                    [] OTHER              -> "finished"]
    /\ events' = mapRun(b, 1) \o resumeRun(b, 1)
    /\ handler' = "pending"
    /\ UNCHANGED <<calcVars, engineVars, routerVars, tokenVars>>

\* the operation the router awaited completes and the router returns
DispatchReturns(i) ==
    /\ i \in DOMAIN task
    /\ task[i] = "inflight"
    /\ events' = events \o << <<"return", i>> >> \o settle(i, FALSE)
    /\ task' = [task EXCEPT ![i] = "finished"]
    /\ UNCHANGED <<calcVars, engineVars, routerVars, batch, handler, tokenVars>>

\* the operation the router awaited raises and the router rethrows
DispatchRaises(i) ==
    /\ i \in DOMAIN task
    /\ task[i] = "inflight"
    /\ events' = events \o << <<"raise", i>> >> \o settle(i, TRUE)
    /\ task' = [task EXCEPT ![i] = "finished"]
    /\ UNCHANGED <<calcVars, engineVars, routerVars, batch, handler, tokenVars>>

\* Promise.all: every callback has returned
BatchSettles ==
    /\ handler = "pending"
    /\ \A i \in DOMAIN task : task[i] \in {"dropped", "finished"}
    /\ handler' = "resolved"
    /\ UNCHANGED <<calcVars, engineVars, routerVars, batch, task, events, tokenVars>>

InitHarness ==
    /\ CalcUnused
    /\ HarnessIdle
    /\ RouterIdle
    /\ TokenIdle

NextHarness ==
    \/ \E b \in Batches : Deliver(b)
    \/ \E i \in 1..MaxBatch : DispatchReturns(i)
    \/ \E i \in 1..MaxBatch : DispatchRaises(i)
    \/ BatchSettles

SpecHarness == InitHarness /\ [][NextHarness]_vars

\* ------------------------------------------------------------------------
\* The router: handleMessage on one decoded message
\* ------------------------------------------------------------------------

\* the topics the router serves
MARATHON_RATING_TOPIC == "marathon.rating.calculate"
AGORITHM_RATING_TOPIC == "algorithm.rating.calculate"
\* the topics the consumer subscribes to
KAFKA_AUTOPILOT_NOTIFICATIONS_TOPIC == "notifications.autopilot"
KAFKA_RATING_SERVICE_TOPIC == "rating.calculation.service"

Topics ==
    {MARATHON_RATING_TOPIC, AGORITHM_RATING_TOPIC,
     KAFKA_AUTOPILOT_NOTIFICATIONS_TOPIC, KAFKA_RATING_SERVICE_TOPIC}

\* An optional field is a sequence, empty when the field is absent; a string
\* field that is absent is "". A body holds the fields a payload may carry.
Body(rid, rid2, phase, st, proj, ev, stat) ==
    [roundId |-> rid, round_id |-> rid2, phaseTypeName |-> phase, state |-> st,
     projectId |-> proj, event |-> ev, status |-> stat]

NoBody == Body(<<>>, <<>>, "", "", <<>>, "", "")

RoundFields == {<<<<>>, <<>>>>, <<<<1>>, <<>>>>, <<<<>>, <<2>>>>, <<<<0>>, <<>>>>, <<<<0>>, <<2>>>>}

\* the payloads of autopilot notifications and of rating-service events, each
\* with or without a round id in either spelling
Bodies ==
    { Body(r[1], r[2], phase, st, <<proj>>, "", "")
      : r \in RoundFields, phase \in {"review", "Review", "registration"},
        st \in {"end", "END", "start"}, proj \in {1, 2} }
    \cup
    { Body(r[1], r[2], "", "", <<>>, ev, stat)
      : r \in RoundFields, ev \in {"RATINGS_CALCULATION", "LOAD_CODERS", "OTHER"},
        stat \in {"SUCCESS", "FAILURE"} }

\* envelopes are maps: the fields are under payload, or at the top level
Messages ==
    { [originator |-> o, payload |-> <<b>>, top |-> NoBody]
      : o \in {"rating.calculation.service", "other"}, b \in Bodies }
    \cup
    { [originator |-> o, payload |-> <<>>, top |-> b]
      : o \in {"rating.calculation.service", "other"}, b \in Bodies }

\* JavaScript truthiness of an optional number
truthy(x) == x # <<>> /\ x[1] # 0

\* const payload = message.payload || message
payloadOf(m) == IF m.payload # <<>> THEN m.payload[1] ELSE m.top

\* const roundId = payload.roundId || payload.round_id
roundIdOf(payload) ==
    IF truthy(payload.roundId) THEN payload.roundId ELSE payload.round_id

\* the test for the round id left out
neverMissing(roundId) == FALSE

\* if (!roundId)
missing(roundId) == ~truthy(roundId)

\* an invoked service operation
Op(name, args) == [op |-> name, args |-> args]

\* handleMessage(topic, message) up to its first await: the switch on the
\* topic, and handleMarathonRating or handleAlgorithmRating up to the await
\* of calculateMarathonRatings
Receive(t, m) ==
    /\ rpc = "idle"
    /\ topic' = t
    /\ message' = m
    /\ LET roundId == roundIdOf(payloadOf(m))
       IN  IF t \in {MARATHON_RATING_TOPIC, AGORITHM_RATING_TOPIC}
           THEN IF missing(roundId)
                THEN /\ logged' = << IF t = MARATHON_RATING_TOPIC
                                     THEN "Marathon rating message missing roundId"
                                     ELSE "Algorithm rating message missing roundId" >>
                     /\ rpc' = "returned"
                     /\ ops' = ops
                ELSE /\ ops' = << Op("calculateMarathonRatings", roundId) >>
                     /\ rpc' = "calculating"
                     /\ logged' = logged
           ELSE /\ logged' = << "Unknown topic" >>
                /\ rpc' = "returned"
                /\ ops' = ops
    /\ UNCHANGED <<calcVars, engineVars, harnessVars, tokenVars>>

\* calculateMarathonRatings returns: loadMarathonRatings(roundId), then
\* loadCoderRatings(), then the handler returns
CalculateReturns ==
    /\ rpc = "calculating"
    /\ ops' = ops \o << Op("loadMarathonRatings", roundIdOf(payloadOf(message))),
                        Op("loadCoderRatings", <<>>) >>
    /\ rpc' = "returned"
    /\ UNCHANGED <<calcVars, engineVars, harnessVars, topic, message, logged, tokenVars>>

\* calculateMarathonRatings raises: handleMessage logs and rethrows
CalculateRaises ==
    /\ rpc = "calculating"
    /\ logged' = Append(logged, "Error handling message")
    /\ rpc' = "raised"
    /\ UNCHANGED <<calcVars, engineVars, harnessVars, topic, message, ops, tokenVars>>

InitRouter ==
    /\ CalcUnused
    /\ HarnessIdle
    /\ RouterIdle
    /\ TokenIdle

NextRouter ==
    \/ \E t \in Topics, m \in Messages : Receive(t, m)
    \/ CalculateReturns
    \/ CalculateRaises

SpecRouter == InitRouter /\ [][NextRouter]_vars

\* ------------------------------------------------------------------------
\* The token cache: getM2Mtoken and its callers
\* ------------------------------------------------------------------------

\* TOKEN_CACHE_TIME, in ticks of the clock
TOKEN_CACHE_TIME == 2
\* the last tick of the clock
MaxClock == 4
\* tokens the endpoint issues
MaxIssued == 3

\* a token is a positive number; NoToken is null, undefined and ''
NoToken == 0

IdleCall == [pc |-> "idle", now |-> 0, result |-> NoToken, hit |-> FALSE]

\* the value with the deadline moved to the instant of expiry itself
cacheValidAtDeadline(now) == cachedToken # NoToken /\ now <= tokenExpiry

\* if (cachedToken && now < tokenExpiry)
cacheValid(now) == cachedToken # NoToken /\ now < tokenExpiry

\* getM2Mtoken() is called and runs to its first await or to its return
GetToken(p) ==
    /\ call[p].pc # "fetching"
    /\ LET now == clock
       IN  call' = [call EXCEPT ![p] =
                      IF cacheValid(now)
                      THEN [pc |-> "returned", now |-> now, result |-> cachedToken, hit |-> TRUE]
                      ELSE IF configured
                      THEN [pc |-> "fetching", now |-> now, result |-> NoToken, hit |-> FALSE]
                      ELSE [pc |-> "returned", now |-> now, result |-> NoToken, hit |-> FALSE]]
    /\ UNCHANGED <<cachedToken, tokenExpiry, clock, configured, issued>>
    /\ UNCHANGED <<calcVars, engineVars, harnessVars, routerVars>>

\* the endpoint answers with an access_token
FetchReturns(p) ==
    /\ call[p].pc = "fetching"
    /\ Len(issued) < MaxIssued
    /\ issued' = Append(issued, call[p].now)
    /\ cachedToken' = Len(issued) + 1
    /\ tokenExpiry' = call[p].now + TOKEN_CACHE_TIME
    /\ call' = [call EXCEPT ![p].pc = "returned", ![p].result = cachedToken']
    /\ UNCHANGED <<clock, configured>>
    /\ UNCHANGED <<calcVars, engineVars, harnessVars, routerVars>>

\* the endpoint answers with a body that has no access_token
FetchReturnsNoToken(p) ==
    /\ call[p].pc = "fetching"
    /\ cachedToken' = NoToken
    /\ tokenExpiry' = call[p].now + TOKEN_CACHE_TIME
    /\ call' = [call EXCEPT ![p].pc = "returned", ![p].result = NoToken]
    /\ UNCHANGED <<clock, configured, issued>>
    /\ UNCHANGED <<calcVars, engineVars, harnessVars, routerVars>>

\* the catch discarding the cached pair before it rethrows
FetchRaisesClearsCache(p) ==
    /\ call[p].pc = "fetching"
    /\ call' = [call EXCEPT ![p].pc = "raised"]
    /\ cachedToken' = NoToken
    /\ tokenExpiry' = 0
    /\ UNCHANGED <<clock, configured, issued>>
    /\ UNCHANGED <<calcVars, engineVars, harnessVars, routerVars>>


\* fetch or response.json() raises: logged and rethrown
FetchRaises(p) ==
    /\ call[p].pc = "fetching"
    /\ call' = [call EXCEPT ![p].pc = "raised"]
    /\ UNCHANGED <<cachedToken, tokenExpiry, clock, configured, issued>>
    /\ UNCHANGED <<calcVars, engineVars, harnessVars, routerVars>>

\* Date.now() advances
Tick ==
    /\ clock < MaxClock
    /\ clock' = clock + 1
    /\ UNCHANGED <<cachedToken, tokenExpiry, configured, issued, call>>
    /\ UNCHANGED <<calcVars, engineVars, harnessVars, routerVars>>

\* AUTH0_URL and AUTH0_CLIENT_ID are both set, or not
InitToken ==
    /\ cachedToken = NoToken
    /\ tokenExpiry = 0
    /\ clock = 1
    /\ configured \in BOOLEAN
    /\ issued = <<>>
    /\ call = [p \in Procs |-> IdleCall]
    /\ CalcUnused
    /\ HarnessIdle
    /\ RouterIdle

NextToken ==
    \/ \E p \in Procs : GetToken(p)
    \/ \E p \in Procs : FetchReturns(p)
    \/ \E p \in Procs : FetchReturnsNoToken(p)
    \/ \E p \in Procs : FetchRaises(p)
    \/ Tick

SpecToken == InitToken /\ [][NextToken]_vars

\* ------------------------------------------------------------------------
\* Two calculate invocations of one round in flight at once: dataHandler
\* starts the handler of every message of a batch without awaiting the
\* previous one, and the invocations interleave at their awaits on the store
\* ------------------------------------------------------------------------

\* algo_rating.create for a coder another invocation has created since the
\* findFirst: the unique index on (coder_id, algo_rating_type_id) rejects the
\* insert and calculate rethrows
PersistAlgoDuplicate(p) ==
    /\ inv[p].pc = "persistAlgo"
    /\ inv[p].existingAlgo = <<>>
    /\ inv[p].queue[inv[p].k].coderId \in DOMAIN algo
    /\ inv' = [inv EXCEPT ![p].pc = "failed", ![p].status = "ERROR",
                          ![p].failedAt = "persistAlgo"]
    /\ UNCHANGED <<storeVars, build, calls, nfail, bumps, completed, engineVars, harnessVars, routerVars, tokenVars>>

\* round 2 with coders 1 and 2 attending; coder 2 rated or without a row
InitConcurrent ==
    /\ round = InitRound
    /\ lcr \in {l \in InitLcrs : \A key \in DOMAIN l : l[key].attended \in {"Y", "y"}}
    /\ algo \in {a \in InitAlgos : \A c \in DOMAIN a : a[c].num_ratings > 0}
    /\ build \in Builds
    /\ inv = [p \in Procs |-> IdleInv]
    /\ calls = 0
    /\ nfail = 0
    /\ bumps = [key \in LegacyIds \X Coders |-> 0]
    /\ completed = {}
    /\ slate = <<>>
    /\ outcome = <<>>
    /\ HarnessIdle
    /\ RouterIdle
    /\ TokenIdle

NextConcurrent ==
    \E p \in Procs :
      \/ Start(p, 2)   \* both messages name round 2, found by round id
      \/ Resolve(p)
      \/ ReadLcr(p)
      \/ FetchOk(p)
      \/ Load(p)
      \/ LoadAlgo(p)
      \/ PersistFind(p)
      \/ PersistLcr(p)
      \/ PersistLcrRejected(p)
      \/ PersistAlgo(p)
      \/ PersistAlgoDuplicate(p)
      \/ PersistRound(p)

SpecConcurrent == InitConcurrent /\ [][NextConcurrent]_vars


\* ------------------------------------------------------------------------
\* Properties of the engine
\* ------------------------------------------------------------------------

engineRan == Len(outcome) > 0

\* C6: for a slate of exactly one participant the engine is a no-op, it
\* returns new_rating = rating and new_volatility = volatility and no NaN
C6_SingletonNoOp ==
    (engineRan /\ Len(slate) = 1) =>
        /\ outcome[1].newRating = slate[1].rating
        /\ outcome[1].newVolatility = slate[1].volatility

\* the cap of participant i: 150 + 1500 / (2 + num_ratings), num_ratings as loaded
capAt(i) == capOf(slate[i])

\* |new_rating - rating| of participant i, rating as the engine took it
moveAt(i) == Abs(outcome[i].newRating - outcome[i].rating)

\* C7 as stated: in a slate of two or more the rounded new_rating differs from
\* rating by at most 150 + 1500 / (2 + num_ratings)
C7_WithinCap ==
    (engineRan /\ Len(slate) >= 2) =>
        \A i \in 1..Len(slate) :
            IsFinite(outcome[i].newRating) /\ Num(moveAt(i)) <= capAt(i)

\* C7 amended: the rounded new_rating differs from rating by at most the cap
\* rounded to the nearest integer, halves up
C7_WithinRoundedCap ==
    (engineRan /\ Len(slate) >= 2) =>
        \A i \in 1..Len(slate) :
            IsFinite(outcome[i].newRating) /\ moveAt(i) <= Round(capAt(i))

\* a participant moved by the full rounded cap, which exceeds the cap
C7_CapReached ==
    /\ engineRan /\ Len(slate) >= 2
    /\ \E i \in 1..Len(slate) :
          /\ moveAt(i) = Round(capAt(i))
          /\ Num(moveAt(i)) > capAt(i)

\* C9: the actual ranks of a slate of n sum to n (n + 1) / 2
C9_RankSum ==
    engineRan =>
        2 * SumOver([i \in 1..Len(outcome) |-> outcome[i].actualRank], 1, Len(outcome))
            = Len(slate) * (Len(slate) + 1) * S

\* three participants of whom two tie
C9_TieRanked ==
    /\ engineRan /\ Len(slate) = 3
    /\ \E i, j \in 1..3 : i # j /\ outcome[i].actualRank = outcome[j].actualRank
    /\ \E i, j \in 1..3 : outcome[i].actualRank # outcome[j].actualRank

\* ------------------------------------------------------------------------
\* Properties of calculate over the store
\* ------------------------------------------------------------------------

\* calculate has returned without raising
returned(p) == inv[p].pc = "done"

\* the long_comp_result key of coder c in the round the invocation rates
keyOf(p, c) == <<inv[p].roundId, c>>

\* the steps of persistRatings
PersistSteps == {"persistFind", "persistLcr", "persistAlgo", "persistRound"}

\* C1: once a calculate for r has completed and Round(r).rated_ind = 1, a
\* later calculate for r writes nothing and yields ALREADY_CALCULATED
C1_Idempotent ==
    \A p \in Procs :
        inv[p].idem =>
            /\ ~inv[p].wrote
            /\ returned(p) => inv[p].status = "ALREADY_CALCULATED"

\* C2: when a store operation inside a persistRatings call fails, the store
\* is as it was before the call
C2_AllOrNothing ==
    \A p \in Procs :
        (inv[p].pc = "failed" /\ inv[p].failedAt \in PersistSteps) =>
            Store = inv[p].ppre

\* C3: when calculate completes without error, every row of the round that
\* had attended in {Y, y} and new_rating NULL at the start has an algo_rating
\* row with last_rated_round_id = r, new_rating and new_vol non-null,
\* rated_ind = 1, and the round has rated_ind = 1
C3_PostCondition ==
    \A p \in Procs :
        returned(p) =>
            \A c \in Coders :
                ( /\ keyOf(p, c) \in DOMAIN inv[p].pre.lcr
                  /\ inv[p].pre.lcr[keyOf(p, c)].attended \in {"Y", "y"}
                  /\ inv[p].pre.lcr[keyOf(p, c)].new_rating = NULL ) =>
                    /\ c \in DOMAIN algo
                    /\ algo[c].last_rated_round_id = inv[p].roundId
                    /\ lcr[keyOf(p, c)].new_rating # NULL
                    /\ lcr[keyOf(p, c)].new_vol # NULL
                    /\ lcr[keyOf(p, c)].rated_ind = 1
                    /\ round[inv[p].roundId].rated_ind = 1

\* C4: after calculate completes without error every participant of the
\* loaded slate has an algo_rating row of type 3; the table is keyed by
\* (coder_id, algo_rating_type_id), so a row that exists is the only one
C4_OneAlgoRow ==
    \A p \in Procs :
        returned(p) =>
            \A i \in 1..Len(inv[p].data) : inv[p].data[i].coderId \in DOMAIN algo

\* a completed calculate whose slate had a coder with a row and one without
C4_MixedSlateRated ==
    \E p \in Procs :
        /\ returned(p) /\ inv[p].status = "SUCCESS"
        /\ \E i, j \in 1..Len(inv[p].data) :
              /\ inv[p].data[i].coderId \in DOMAIN inv[p].pre.algo
              /\ inv[p].data[j].coderId \notin DOMAIN inv[p].pre.algo

\* C5: num_ratings after processing is its value before plus 1, and no
\* further calculate for the round raises it again
C5_OneIncrement ==
    /\ \A p \in Procs :
          returned(p) =>
              \A i \in 1..Len(inv[p].data) :
                  /\ inv[p].data[i].coderId \in DOMAIN algo
                  /\ algo[inv[p].data[i].coderId].num_ratings
                        = inv[p].data[i].numRatings + 1
    /\ \A key \in DOMAIN bumps : bumps[key] <= 1

\* C8: every rating the engine produces and the Persistor writes is >= 1 and
\* every volatility >= 0
C8_FloorAndSign ==
    /\ \A p \in Procs : \A i \in 1..Len(inv[p].queue) :
          inv[p].queue[i].newRating >= 1 /\ inv[p].queue[i].newVolatility >= 0
    /\ \A key \in DOMAIN lcr :
          lcr[key].rated_ind = 1 => lcr[key].new_rating >= 1 /\ lcr[key].new_vol >= 0
    /\ \A c \in DOMAIN algo :
          algo[c].last_rated_round_id # NULL => algo[c].rating >= 1 /\ algo[c].vol >= 0

\* C10: a participant entering with num_ratings = 0 is computed as 1200 / 515
\* whatever the seeded values, and the volatility persisted for them in
\* long_comp_result and algo_rating is 385
C10_FirstTimer ==
    \A p \in Procs :
        /\ inv[p].pass = "prov" =>
              \A i \in 1..Len(inv[p].queue) :
                  /\ inv[p].queue[i].rating = 1200
                  /\ inv[p].queue[i].volatility = 515
                  /\ inv[p].queue[i].newVolatility = FIRST_VOLATILITY
        /\ (returned(p) /\ inv[p].status = "SUCCESS") =>
              \A i \in 1..Len(inv[p].data) :
                  inv[p].data[i].numRatings = 0 =>
                      /\ lcr[keyOf(p, inv[p].data[i].coderId)].new_vol = FIRST_VOLATILITY
                      /\ algo[inv[p].data[i].coderId].vol = FIRST_VOLATILITY

\* a completed calculate that rated a new coder with a seeded row and one with none
C10_SeededFirstTimerRated ==
    \E p \in Procs :
        /\ returned(p) /\ inv[p].status = "SUCCESS"
        /\ \E i, j \in 1..Len(inv[p].data) :
              /\ inv[p].data[i].numRatings = 0 /\ inv[p].data[i].rating = 900
              /\ inv[p].data[j].numRatings = 0 /\ inv[p].data[j].rating = 0


\* ------------------------------------------------------------------------
\* Non-interference of first-timers
\* ------------------------------------------------------------------------

\* the experienced participants of a loaded slate, in its order
experiencedOf(data) == SelectSeq(data, LAMBDA c : c.numRatings > 0)

\* what the engine yields for the experienced participants taken alone
aloneOf(data) ==
    IF Len(experiencedOf(data)) = 0 THEN <<>>
    ELSE runQubitsAlgorithm(experiencedOf(data))

\* C11: two slates with the same experienced participants, scores and prior
\* tuples persist the same new_rating and new_vol for them whatever their
\* first-timers are: what is persisted for an experienced participant is the
\* value computed from the experienced participants alone
C11_FirstTimersDoNotInterfere ==
    \A p \in Procs :
        (returned(p) /\ inv[p].status = "SUCCESS") =>
            \A alone \in {aloneOf(inv[p].data)} :
                \A i \in 1..Len(alone) :
                    /\ lcr[keyOf(p, alone[i].coderId)].new_rating = DbVal(alone[i].newRating)
                    /\ lcr[keyOf(p, alone[i].coderId)].new_vol = DbVal(alone[i].newVolatility)

\* a rated slate of two experienced participants and a first-timer
C11_MixedSlatePersisted ==
    \E p \in Procs :
        /\ returned(p) /\ inv[p].status = "SUCCESS"
        /\ Len(experiencedOf(inv[p].data)) >= 2
        /\ Len(experiencedOf(inv[p].data)) < Len(inv[p].data)


\* ------------------------------------------------------------------------
\* A failed fetch of the submissions
\* ------------------------------------------------------------------------

\* the rows of the rated round that were unrated and attended when calculate
\* was called
unratedAtCall(p) ==
    {key \in DOMAIN inv[p].pre.lcr :
        /\ key[1] = inv[p].roundId
        /\ inv[p].pre.lcr[key].attended \in {"Y", "y"}
        /\ inv[p].pre.lcr[key].new_rating = NULL
        /\ inv[p].pre.lcr[key].new_vol = NULL}

\* the steps of runRatingProcess
RatingSteps == {"load", "loadAlgo"} \cup PersistSteps

\* C12: when the fetch of the submissions fails, no attended flag changes, the
\* rating process runs on the attendance stored at the call and persists its
\* results, and calculate raises only from a step of the rating process
C12_FetchFailureSwallowed ==
    \A p \in Procs :
        inv[p].fetchFailed =>
            /\ \A key \in DOMAIN lcr : lcr[key].attended = inv[p].pre.lcr[key].attended
            /\ inv[p].pc \in RatingSteps \cup {"done", "failed"}
            /\ inv[p].pc = "failed" => inv[p].failedAt \in RatingSteps
            /\ inv[p].pc \in {"loadAlgo"} \cup PersistSteps =>
                   {<<inv[p].roundId, inv[p].results[i].coder_id>> : i \in 1..Len(inv[p].results)}
                       = unratedAtCall(p)
            /\ returned(p) =>
                   /\ inv[p].status = "ALREADY_CALCULATED" <=> unratedAtCall(p) = {}
                   /\ \A key \in unratedAtCall(p) : lcr[key].rated_ind = 1

\* a calculate whose fetch failed has rated the round although a member with a
\* final submission is stored as absent
C12_RatedAfterFailedFetch ==
    \E p \in Procs :
        /\ inv[p].fetchFailed /\ returned(p) /\ inv[p].status = "SUCCESS"
        /\ \E c \in {2, 3} : /\ keyOf(p, c) \in DOMAIN lcr
                             /\ lcr[keyOf(p, c)].attended = "N"


\* ------------------------------------------------------------------------
\* The empty slate
\* ------------------------------------------------------------------------

\* C19: when loadCoderData finds no unrated attended row of the resolved round,
\* the rating process yields ALREADY_CALCULATED, makes no engine pass and
\* writes nothing to long_comp_result, algo_rating or round
C19_EmptySlate ==
    [][\A p \in Procs :
         (/\ inv[p].pc = "load"
          /\ loadResults(inv[p].roundId) = <<>>
          /\ inv'[p].pc # "failed") =>
             /\ inv'[p].pc = "done"
             /\ inv'[p].status = "ALREADY_CALCULATED"
             /\ inv'[p].runs = 0
             /\ inv'[p].pass = "" /\ inv'[p].queue = <<>>
             /\ storeVars' = storeVars /\ bumps' = bumps]_vars

\* a second calculate for a round already rated has returned ALREADY_CALCULATED
C19_SecondCallFoundNothing ==
    \E p \in Procs :
        /\ returned(p) /\ inv[p].idem
        /\ inv[p].status = "ALREADY_CALCULATED"
        /\ inv[p].results = <<>> /\ inv[p].runs = 0


\* ------------------------------------------------------------------------
\* The resolved round
\* ------------------------------------------------------------------------

\* the invocation has resolved its round
resolved(p) == inv[p].pc \notin {"idle", "resolve"} /\ inv[p].failedAt # "resolve"

\* C20: calculate rates the round whose contest_id is the legacy id when there
\* is one and the round whose round_id is the legacy id otherwise; what it
\* reads of long_comp_result and what it writes belongs to that round alone
C20_OneResolvedRound ==
    \A p \in Procs :
        resolved(p) =>
            /\ IF \E r \in DOMAIN round : round[r].contest_id = inv[p].legacyId
               THEN /\ inv[p].roundId \in DOMAIN round
                    /\ round[inv[p].roundId].contest_id = inv[p].legacyId
               ELSE inv[p].roundId = inv[p].legacyId
            /\ \A c \in DOMAIN inv[p].lcrEntries :
                   /\ keyOf(p, c) \in DOMAIN inv[p].pre.lcr
                   /\ inv[p].lcrEntries[c].system_point_total
                          = inv[p].pre.lcr[keyOf(p, c)].system_point_total
            /\ \A i \in 1..Len(inv[p].results) :
                   /\ keyOf(p, inv[p].results[i].coder_id) \in DOMAIN inv[p].pre.lcr
                   /\ inv[p].results[i].system_point_total
                          = inv[p].pre.lcr[keyOf(p, inv[p].results[i].coder_id)].system_point_total
            /\ \A r \in DOMAIN round : r # inv[p].roundId => round[r] = inv[p].pre.round[r]
            /\ \A key \in DOMAIN lcr : key[1] # inv[p].roundId => lcr[key] = inv[p].pre.lcr[key]
            /\ DOMAIN lcr = DOMAIN inv[p].pre.lcr
            /\ \A c \in DOMAIN algo :
                   (c \notin DOMAIN inv[p].pre.algo \/ algo[c] # inv[p].pre.algo[c]) =>
                       /\ algo[c].round_id = inv[p].roundId
                       /\ algo[c].last_rated_round_id = inv[p].roundId

\* a calculate called with a contest id that is no round id has rated the
\* round of that contest
C20_RatedByContestId ==
    \E p \in Procs :
        /\ returned(p) /\ inv[p].status = "SUCCESS"
        /\ inv[p].legacyId # inv[p].roundId
        /\ round[inv[p].roundId].rated_ind = 1
        /\ \E c \in Coders : keyOf(p, c) \in DOMAIN lcr /\ lcr[keyOf(p, c)].rated_ind = 1


\* ------------------------------------------------------------------------
\* Properties of the consumer harness
\* ------------------------------------------------------------------------

\* where <<kind, i>> is in the record of what happened
positions(kind, i) == {k \in DOMAIN events : events[k] = <<kind, i>>}

\* the dispatch of message i has returned or raised before position k
dispatchOverBefore(i, k) ==
    \E j \in 1..(k - 1) : events[j] \in {<<"return", i>>, <<"raise", i>>}

\* C13: the offset of a message that decodes as JSON is committed once, after
\* its dispatch has returned or raised; what a dispatch raises is logged before
\* the commit, and the batch handler settles with every such offset committed
C13_CommitAfterDispatch ==
    \A i \in DOMAIN batch :
        batch[i] # "malformed" =>
            /\ Cardinality(positions("commit", i)) <= 1
            /\ \A k \in positions("commit", i) :
                   /\ dispatchOverBefore(i, k)
                   /\ \A j \in positions("raise", i) :
                          \E e \in positions("error", i) : j < e /\ e < k
            /\ task[i] = "finished" => Cardinality(positions("commit", i)) = 1
            /\ handler = "resolved" => task[i] = "finished"
            /\ handler \in {"pending", "resolved"}

\* a batch has settled after the dispatch of one of its messages raised from
\* an awaited operation and its offset was committed
C13_RaisedAndCommitted ==
    /\ handler = "resolved"
    /\ \E i \in DOMAIN batch :
           /\ batch[i] = "work"
           /\ positions("raise", i) # {}
           /\ positions("commit", i) # {}

\* C14: a message whose value is not valid JSON is logged, never dispatched,
\* and its offset is committed
C14_MalformedCommitted ==
    handler = "resolved" =>
        \A i \in DOMAIN batch :
            batch[i] = "malformed" =>
                /\ positions("invalid", i) # {}
                /\ positions("start", i) = {}
                /\ positions("commit", i) # {}

\* C15: the dispatch of a message starts only after the dispatch of the
\* preceding dispatched message of the batch has returned, so that at most one
\* dispatch is in flight
C15_OneDispatchInFlight ==
    /\ Cardinality({i \in DOMAIN task : task[i] = "inflight"}) <= 1
    /\ \A i \in DOMAIN batch : \A h \in 1..(i - 1) :
           \A k \in positions("start", i) :
               positions("start", h) # {} => dispatchOverBefore(h, k)


\* ------------------------------------------------------------------------
\* Properties of the router
\* ------------------------------------------------------------------------

\* what the challenge lookup by legacyId = projectId answers
Challenges ==
    [proj \in {1, 2} |->
        IF proj = 1 THEN [id |-> "challenge-1", legacyId |-> 1, subTrack |-> "MARATHON_MATCH"]
        ELSE [id |-> "challenge-2", legacyId |-> 2, subTrack |-> "DEVELOPMENT"]]

\* toLowerCase on the strings in use
Lower(s) ==
    CASE s = "Review" -> "review"
      [] s = "END" -> "end"
      [] s = "MARATHON_MATCH" -> "marathon_match"
      [] s = "DEVELOPMENT" -> "development"
      [] OTHER -> s

\* the topics autopilot notifications and rating-service events come on: the
\* subscribed topic and the topic the router serves for them
AutopilotTopics == {KAFKA_AUTOPILOT_NOTIFICATIONS_TOPIC, MARATHON_RATING_TOPIC}
RatingTopics == {KAFKA_RATING_SERVICE_TOPIC, AGORITHM_RATING_TOPIC}

\* the names under which the three orchestrator operations are invoked
CalculateOps == {"calculate", "calculateMarathonRatings"}
LoadRatingsOps == {"loadRatings", "loadMarathonRatings"}
LoadCodersOps == {"loadCoders", "loadCoderRatings"}

\* an operation of the set has been invoked
invoked(names) == \E k \in DOMAIN ops : ops[k].op \in names

\* the one operation invoked is of the set, with these arguments
invokedOnly(names, args) ==
    /\ Len(ops) = 1
    /\ ops[1].op \in names
    /\ Len(ops[1].args) = Len(args)
    /\ ops[1].args = args

\* C16: on the autopilot-notifications topic calculate is invoked exactly when
\* phaseTypeName is "review" and state is "end", both in any case, and the
\* challenge of the project is a marathon match; it is invoked as
\* calculate(challenge.id, challenge.legacyId) and nothing else is invoked
C16_AutopilotRouting ==
    (rpc = "returned" /\ topic \in AutopilotTopics) =>
        LET p   == payloadOf(message)
            due == /\ p.projectId # <<>>
                   /\ Lower(p.phaseTypeName) = "review"
                   /\ Lower(p.state) = "end"
                   /\ Lower(Challenges[p.projectId[1]].subTrack) = "marathon_match"
        IN  IF due
            THEN invokedOnly(CalculateOps, <<Challenges[p.projectId[1]].id,
                                             Challenges[p.projectId[1]].legacyId>>)
            ELSE ops = <<>>

\* C17: on the rating-service topic only a message of originator
\* rating.calculation.service acts: RATINGS_CALCULATION with SUCCESS invokes
\* loadCoders(roundId) alone, LOAD_CODERS with SUCCESS invokes
\* loadRatings(roundId) alone, anything else invokes nothing; no message
\* invokes calculate, loadCoders and loadRatings together
C17_RatingRouting ==
    (rpc = "returned" /\ topic \in RatingTopics) =>
        LET p  == payloadOf(message)
            on == message.originator = "rating.calculation.service" /\ p.status = "SUCCESS"
        IN  /\ ~(invoked(CalculateOps) /\ invoked(LoadCodersOps) /\ invoked(LoadRatingsOps))
            /\ IF on /\ p.event = "RATINGS_CALCULATION"
               THEN truthy(p.roundId) => invokedOnly(LoadCodersOps, p.roundId)
               ELSE IF on /\ p.event = "LOAD_CODERS"
               THEN truthy(p.roundId) => invokedOnly(LoadRatingsOps, p.roundId)
               ELSE ops = <<>>

\* the message was logged and dropped: the handler has returned, nothing was
\* invoked and the store is as it was
dropped ==
    /\ rpc = "returned"
    /\ ops = <<>>
    /\ logged # <<>>
    /\ round = InitRound /\ lcr = <<>> /\ algo = <<>>

\* the topic is one the switch of handleMessage has a case for
handledTopic == topic \in {MARATHON_RATING_TOPIC, AGORITHM_RATING_TOPIC}

\* C18 as stated: a message on a topic other than the two handled ones, or a
\* rating message without roundId, is logged and dropped, and the handler
\* returns without raising
C18_NoRoundIdDropped ==
    (rpc # "idle" /\ (~handledTopic \/ payloadOf(message).roundId = <<>>)) => dropped

\* C18: a message on a topic other than the two handled ones, or a rating
\* message that carries neither roundId nor round_id, is logged and dropped,
\* and the handler returns without raising
C18_NoRoundIdOfEitherNameDropped ==
    (rpc # "idle" /\ (\/ ~handledTopic
                      \/ /\ payloadOf(message).roundId = <<>>
                         /\ payloadOf(message).round_id = <<>>)) => dropped

\* a rating message without a round id has been logged and dropped
C18_RatingMessageDropped ==
    /\ handledTopic
    /\ payloadOf(message).roundId = <<>> /\ payloadOf(message).round_id = <<>>
    /\ payloadOf(message).event = "RATINGS_CALCULATION"
    /\ rpc = "returned"
    /\ logged = << "Algorithm rating message missing roundId" >>


\* ------------------------------------------------------------------------
\* The seeded round
\* ------------------------------------------------------------------------

\* num_ratings each seeded coder is to have after the round
seedNumRatings(c) ==
    CASE c = 1001 -> 6
      [] c = 1002 -> 4
      [] OTHER    -> 1

\* C21: one calculate of round 10001 from the seed state ends with the round
\* rated, the five results rated with new_rating and new_vol set, and an
\* algo_rating row for each coder with last_rated_round_id 10001, num_ratings
\* 6, 4, 1, 1, 1 and vol 385 for the three first-timers
C21_SeedRated ==
    (calls = 1 /\ returned(Main)) =>
        /\ inv[Main].status = "SUCCESS"
        /\ round[SeedRound].rated_ind = 1
        /\ \A c \in SeedCoders :
               /\ lcr[<<SeedRound, c>>].new_rating # NULL
               /\ lcr[<<SeedRound, c>>].new_vol # NULL
               /\ lcr[<<SeedRound, c>>].rated_ind = 1
               /\ c \in DOMAIN algo
               /\ algo[c].last_rated_round_id = SeedRound
               /\ algo[c].num_ratings = seedNumRatings(c)
        /\ \A c \in {1003, 1004, 1005} : algo[c].vol = 385

\* the first calculate of the seeded round has returned
C21_SeedCalculated ==
    /\ calls = 1 /\ returned(Main)
    /\ inv[Main].roundId = SeedRound
    /\ Len(inv[Main].data) = 5


\* ------------------------------------------------------------------------
\* The two entry points
\* ------------------------------------------------------------------------

\* C22: a calculate that resolves to round r leaves long_comp_result,
\* algo_rating and round as calculateMarathonRatings(r) leaves them from the
\* store calculate was called on, and ends with the same status
C22_ByRoundEquivalent ==
    \A p \in Procs :
        returned(p) =>
            Only({ byRound.store = Store /\ byRound.status = inv[p].status
                   : byRound \in {calculateMarathonRatings(inv[p].pre, inv[p].roundId)} })


\* ------------------------------------------------------------------------
\* The round's rated_ind
\* ------------------------------------------------------------------------

\* invocation p sets rated_ind of its round from 0 to 1 in this step
marksRound(p) ==
    /\ inv[p].roundId \in DOMAIN round
    /\ round[inv[p].roundId].rated_ind = 0
    /\ round'[inv[p].roundId].rated_ind = 1

\* the results of the coders of cs have been written in round r
written(r, cs) ==
    \A i \in DOMAIN cs : lcr[<<r, cs[i].coderId>>].rated_ind = 1

writesAttended == \E key \in DOMAIN lcr : lcr'[key].attended # lcr[key].attended

\* the rows of round r that invocation p has flipped from 'N' to 'Y' by the
\* end of the step
flippedBy(p) ==
    {key \in DOMAIN lcr : /\ key[1] = inv[p].roundId
                          /\ inv'[p].pre.lcr[key].attended = "N"
                          /\ lcr'[key].attended = "Y"}

\* C24: within one calculate every attendance write is made by the
\* reconciliation, before the unrated slate is read, and a member flipped from
\* 'N' to 'Y' is rated by the same invocation; the slate is read in full
\* before the provisional engine run; and the results of the first-timers
\* are persisted before the non-provisional engine run starts
C24_StepsOrdered ==
    [][\A p \in {Main} :
          /\ writesAttended =>
                 /\ inv[p].pc = "flip"
                 /\ inv[p].results = <<>> /\ inv[p].data = <<>> /\ inv[p].runs = 0
          /\ (inv[p].pc = "load" /\ inv'[p].pc \notin {"load", "failed"}) =>
                 /\ inv'[p].results = loadResults(inv[p].roundId)
                 /\ \A key \in flippedBy(p) :
                        \E i \in DOMAIN inv'[p].results : inv'[p].results[i].coder_id = key[2]
          /\ (inv[p].runs = 0 /\ inv'[p].runs > 0) =>
                 /\ inv'[p].results # <<>>
                 /\ Len(inv'[p].data) = Len(inv'[p].results)
                 /\ \A i \in DOMAIN inv'[p].data :
                        inv'[p].data[i].coderId = inv'[p].results[i].coder_id
          /\ (inv[p].runs < 2 /\ inv'[p].runs = 2) =>
                 \A i \in DOMAIN inv'[p].data :
                     inv'[p].data[i].numRatings = 0 =>
                         /\ lcr'[keyOf(p, inv'[p].data[i].coderId)].rated_ind = 1
                         /\ inv'[p].data[i].coderId \in DOMAIN algo'
                         /\ algo'[inv'[p].data[i].coderId].num_ratings >= 1
          /\ inv'[p].pc = "done" =>
                 \A key \in flippedBy(p) : lcr'[key].rated_ind = 1
      ]_vars

\* a calculate that flipped a member, persisted a first-timer and then ran
\* the engine on the experienced coders has returned
C24_FlippedAndTwoRuns ==
    /\ returned(Main)
    /\ inv[Main].runs = 2
    /\ \E i \in DOMAIN inv[Main].data : inv[Main].data[i].numRatings = 0
    /\ \E key \in DOMAIN lcr :
           /\ key[1] = inv[Main].roundId
           /\ inv[Main].pre.lcr[key].attended = "N"
           /\ lcr[key].attended = "Y" /\ lcr[key].rated_ind = 1


\* ------------------------------------------------------------------------
\* The actual ranks
\* ------------------------------------------------------------------------

\* the participants of the slate that scored more than participant i, and
\* those that scored the same, i included
above(i) == Cardinality({j \in 1..Len(slate) : slate[j].score > slate[i].score})
level(i) == Cardinality({j \in 1..Len(slate) : slate[j].score = slate[i].score})

\* C25: a group of k participants of equal score with i participants above
\* it all receive actual_rank = i + 0.5 + k / 2, wherever they stand in the
\* slate; every actual_rank is (n + 1) / 2 when all n scores are equal, and
\* the ranks are exactly 1..n when all scores are distinct
C25_RanksByScore ==
    engineRan =>
        LET n == Len(slate)
        IN  /\ \A i \in 1..n :
                   2 * outcome[i].actualRank = (2 * above(i) + 1 + level(i)) * S
            /\ (\A i \in 1..n : level(i) = n) =>
                   \A i \in 1..n : 2 * outcome[i].actualRank = (n + 1) * S
            /\ (\A i \in 1..n : level(i) = 1) =>
                   {outcome[i].actualRank : i \in 1..n} = {m * S : m \in 1..n}

\* three participants of distinct scores, the best of them last in the slate
C25_DistinctOutOfOrder ==
    /\ engineRan /\ Len(slate) = 3
    /\ \A i \in 1..3 : level(i) = 1
    /\ above(3) = 0 /\ above(1) = 1
    /\ outcome[3].actualRank = S /\ outcome[1].actualRank = 2 * S


\* ------------------------------------------------------------------------
\* The reconciliation of attendance
\* ------------------------------------------------------------------------

\* the latest submission of coder c, by created, carries a reviewSummation
latestReviewed(submissions, c) ==
    \E i \in DOMAIN submissions :
        /\ submissions[i].memberId = c
        /\ submissions[i].reviewSummation
        /\ \A j \in DOMAIN submissions :
               (j # i /\ submissions[j].memberId = c) =>
                   \/ submissions[j].created < submissions[i].created
                   \/ submissions[j].created = submissions[i].created /\ j < i

\* the rows the reconciliation of invocation p is to flip
dueFlips(p) ==
    {key \in DOMAIN inv[p].pre.lcr :
        /\ key[1] = inv[p].roundId
        /\ inv[p].pre.lcr[key].attended = "N"
        /\ latestReviewed(inv[p].submissions, key[2])}

\* the reconciliation of invocation p ran to its end without a failure
reconciled(p) ==
    inv[p].pc = "load" /\ ~inv[p].fetchFailed /\ inv[p].flips = <<>>

\* C26: the reconciliation sets attended to 'Y' for exactly the rows of the
\* round whose attended is 'N' and whose coder's latest submission carries a
\* reviewSummation, an earlier reviewed submission not counting; it changes
\* no other row and no other column, and never turns a 'Y' into an 'N'
C26_ReconciliationFrame ==
    \A p \in {Main} :
        /\ inv[p].pc \in {"flip", "load"} =>
               /\ round = inv[p].pre.round /\ algo = inv[p].pre.algo
               /\ DOMAIN lcr = DOMAIN inv[p].pre.lcr
               /\ \A key \in DOMAIN lcr :
                      \/ lcr[key] = inv[p].pre.lcr[key]
                      \/ /\ key \in dueFlips(p)
                         /\ lcr[key] = [inv[p].pre.lcr[key] EXCEPT !.attended = "Y"]
        /\ reconciled(p) => \A key \in dueFlips(p) : lcr[key].attended = "Y"
        /\ inv[p].pc # "idle" =>
               \A key \in DOMAIN inv[p].pre.lcr :
                   inv[p].pre.lcr[key].attended \in {"Y", "y"} =>
                       lcr[key].attended = inv[p].pre.lcr[key].attended

\* the reconciliation flipped one member and left alone another, whose
\* latest submission is not reviewed while an earlier one is
C26_FlippedOneOfTwo ==
    /\ reconciled(Main)
    /\ \E key \in dueFlips(Main) : lcr[key].attended = "Y"
    /\ \E key \in DOMAIN lcr :
           /\ key[1] = inv[Main].roundId
           /\ lcr[key].attended = "N"
           /\ \E i \in DOMAIN inv[Main].submissions :
                  /\ inv[Main].submissions[i].memberId = key[2]
                  /\ inv[Main].submissions[i].reviewSummation


\* ------------------------------------------------------------------------
\* The extrema of algo_rating
\* ------------------------------------------------------------------------

\* C27: an update of an existing algo_rating row makes highest_rating the
\* maximum of the stored highest_rating and the new rating and lowest_rating
\* the minimum of the stored lowest_rating and the new rating, so that
\* lowest_rating <= rating <= highest_rating afterwards
C27_ExtremaRefreshed ==
    [][\A c \in DOMAIN algo :
          ( /\ algo'[c] # algo[c]
            /\ algo'[c].rating # NULL
            /\ algo[c].highest_rating # NULL /\ algo[c].lowest_rating # NULL ) =>
              /\ algo'[c].highest_rating
                     = IF algo'[c].rating > algo[c].highest_rating
                       THEN algo'[c].rating ELSE algo[c].highest_rating
              /\ algo'[c].lowest_rating
                     = IF algo'[c].rating < algo[c].lowest_rating
                       THEN algo'[c].rating ELSE algo[c].lowest_rating
              /\ algo'[c].lowest_rating <= algo'[c].rating
              /\ algo'[c].rating <= algo'[c].highest_rating
      ]_vars


\* ------------------------------------------------------------------------
\* The result row of a persisted participant
\* ------------------------------------------------------------------------

\* C28: the result row of a participant just persisted carries in old_rating
\* and old_vol the rating and vol of the coder's algo_rating row as they are
\* before the upsert, NULL when there is no row, in new_rating and new_vol
\* the outputs of the engine, and rated_ind = 1
C28_ResultRow ==
    \A p \in {Main} :
        inv[p].pc = "persistAlgo" =>
            LET coder == inv[p].queue[inv[p].k]
                c     == coder.coderId
                row   == lcr[keyOf(p, c)]
            IN  /\ row.old_rating = IF c \in DOMAIN algo THEN algo[c].rating ELSE NULL
                /\ row.old_vol = IF c \in DOMAIN algo THEN algo[c].vol ELSE NULL
                /\ row.new_rating = coder.newRating
                /\ row.new_vol = coder.newVolatility
                /\ row.rated_ind = 1


\* ------------------------------------------------------------------------
\* The loader
\* ------------------------------------------------------------------------

\* the rows of the round of invocation p that are attended and unrated
selected(p) ==
    {key \in DOMAIN lcr : /\ key[1] = inv[p].roundId
                          /\ lcr[key].attended \in {"Y", "y"}
                          /\ lcr[key].new_rating = NULL
                          /\ lcr[key].new_vol = NULL}

\* loadCoderData of invocation p has returned and nothing was written since:
\* the slate was empty, or the first persistRatings call is at its first coder
justLoaded(p) ==
    \/ inv[p].pc = "done" /\ inv[p].status = "ALREADY_CALCULATED"
    \/ /\ inv[p].pc = "persistFind" /\ inv[p].k = 1
       /\ \/ inv[p].pass = "prov"
          \/ \A i \in DOMAIN inv[p].data : inv[p].data[i].numRatings > 0

\* the participants are one per selected row and none for another row
onePerRow(p) ==
    /\ {inv[p].data[i].coderId : i \in DOMAIN inv[p].data} = {key[2] : key \in selected(p)}
    /\ Len(inv[p].data) = Cardinality(selected(p))

callsNow(p) == call[p].pc # "fetching" /\ call'[p] # call[p]

\* the fetch of caller p answers with a token in this step
answered(p) ==
    call[p].pc = "fetching" /\ call'[p].pc = "returned" /\ call'[p].result # NoToken

\* a token is cached and the time is before the deadline it was stored with
cachedInTime == cachedToken # NoToken /\ clock < tokenExpiry

\* caller p is handed the cached token, the endpoint not contacted, and the
\* time is before the deadline of that token: the time of the call it
\* answered plus TOKEN_CACHE_TIME
servedFromCache(p) ==
    /\ call'[p].pc = "returned" /\ call'[p].hit
    /\ call'[p].result = cachedToken
    /\ call'[p].now = clock
    /\ clock < issued[cachedToken] + TOKEN_CACHE_TIME
    /\ issued' = issued

\* the token caller p fetched is new and is stored with the deadline of
\* p's call, whoever else fetched meanwhile
storedWithDeadline(p) ==
    /\ call'[p].result \notin 1..Len(issued)
    /\ cachedToken' = call'[p].result
    /\ tokenExpiry' = call[p].now + TOKEN_CACHE_TIME
    /\ issued'[cachedToken'] = call[p].now

\* C30 as stated: getM2Mtoken returns the cached token without contacting
\* the endpoint exactly when a token is cached and the time is before the
\* deadline, never at or after it; otherwise it performs a fetch and, on
\* success, stores the new token with deadline = time of the call +
\* TOKEN_CACHE_TIME, also when several callers miss concurrently
C30_CacheOrFetch ==
    [][\A p \in Procs :
          /\ callsNow(p) =>
                 IF cachedInTime THEN servedFromCache(p)
                 ELSE call'[p].pc = "fetching" /\ call'[p].now = clock
          /\ answered(p) => storedWithDeadline(p)
      ]_vars

\* C30: the same, the fetch being performed when AUTH0_URL and
\* AUTH0_CLIENT_ID are configured; when they are not, getM2Mtoken returns the
\* empty string without a fetch and nothing is cached
C30_CacheOrFetchWhenConfigured ==
    [][\A p \in Procs :
          /\ callsNow(p) =>
                 IF cachedInTime THEN servedFromCache(p)
                 ELSE IF configured
                 THEN call'[p].pc = "fetching" /\ call'[p].now = clock
                 ELSE /\ call'[p].pc = "returned" /\ ~call'[p].hit
                      /\ call'[p].result = NoToken
                      /\ cachedToken' = NoToken /\ issued' = <<>>
          /\ answered(p) => storedWithDeadline(p)
      ]_vars

\* two callers missed concurrently, the fetch of the later call was answered
\* first, and a caller has since been served the token of the earlier call
\* from the cache
C30_ServedAfterConcurrentMisses ==
    /\ Len(issued) = 2 /\ issued[2] < issued[1]
    /\ cachedToken = 2 /\ tokenExpiry = issued[2] + TOKEN_CACHE_TIME
    /\ \E p \in Procs : /\ call[p].pc = "returned" /\ call[p].hit
                        /\ call[p].result = 2
                        /\ call[p].now > issued[2]



\* the rows of algo_rating a step creates or changes
rowsWritten == {c \in DOMAIN algo' : c \notin DOMAIN algo \/ algo'[c] # algo[c]}

\* the participants a step of the Loader adds to p's slate
reported(p) ==
    IF inv[p].pc = "loadAlgo" /\ Len(inv'[p].data) = Len(inv[p].data) + 1
    THEN {inv'[p].data[Len(inv'[p].data)]} ELSE {}

expectedArg(c, n) == FDiv(FSub(c.expectedRank, 5000), Num(n))
actualArg(c, n) == FDiv(FSub(c.actualRank, 5000), Num(n))

\* p lies strictly between 0 and 1
inUnit(x) == FGt(x, 0) /\ FLt(x, S)

\* the size of the slate of the engine run whose results p is persisting
ranOver(p) == IF inv[p].pass = "prov" THEN Len(inv[p].data) ELSE Len(inv[p].queue)

\* C32: for every slate of n >= 2 participants the engine ran over, both
\* arguments it passed to normsinv lie strictly between 0 and 1 and neither
\* expectedPerformance nor actualPerformance is infinite.
C32_ArgumentsInUnitInterval ==
    \A p \in Procs :
      (inv[p].pc \in {"persistFind", "persistLcr", "persistAlgo"} /\ ranOver(p) >= 2) =>
        \A i \in DOMAIN inv[p].queue :
          /\ inUnit(expectedArg(inv[p].queue[i], ranOver(p)))
          /\ inUnit(actualArg(inv[p].queue[i], ranOver(p)))
          /\ ~IsInf(inv[p].queue[i].expectedPerformance)
          /\ ~IsInf(inv[p].queue[i].actualPerformance)



\* the coders of a sequence of CoderRatings
ids(seq) == {seq[i].coderId : i \in DOMAIN seq}

\* the loaded participants with prior num_ratings = 0, and those with more
priorZero(p) == {inv[p].data[i].coderId : i \in {j \in DOMAIN inv[p].data : inv[p].data[j].numRatings = 0}}
priorRated(p) == {inv[p].data[i].coderId : i \in {j \in DOMAIN inv[p].data : inv[p].data[j].numRatings > 0}}

\* how many times c was persisted to algo_rating since p's calculate was called
persistedTimes(p, c) ==
    IF c \in DOMAIN algo
    THEN algo[c].num_ratings - (IF c \in DOMAIN inv[p].pre.algo
                                THEN inv[p].pre.algo[c].num_ratings ELSE 0)
    ELSE 0

\* C33: in a run of the rating process the provisional pass persists exactly
\* the loaded participants with prior num_ratings = 0 and the non-provisional
\* pass exactly those with prior num_ratings > 0, each participant once: the
\* two sets are disjoint, their union is the loaded slate, and when the run
\* has returned every loaded participant was persisted once and nobody twice.
C33_PassesPartitionSlate ==
    \A p \in Procs :
      /\ inv[p].pc \in {"persistFind", "persistLcr", "persistAlgo", "persistRound"} =>
           /\ inv[p].pass = "prov" => ids(inv[p].queue) = priorZero(p)
           /\ inv[p].pass = "nonprov" => ids(inv[p].queue) = priorRated(p)
           /\ Cardinality(ids(inv[p].queue)) = Len(inv[p].queue)
           /\ priorZero(p) \cap priorRated(p) = {}
           /\ priorZero(p) \cup priorRated(p) = ids(inv[p].data)
      /\ inv[p].pc \notin {"idle"} =>
           \A c \in DOMAIN algo : persistedTimes(p, c) <= 1
      /\ (inv[p].pc = "done" /\ inv[p].status = "SUCCESS") =>
           \A c \in ids(inv[p].data) : persistedTimes(p, c) = 1

\* a run over a first-timer and a rated coder has returned
C33_BothPassesPersisted ==
    \E p \in Procs :
      /\ inv[p].pc = "done" /\ inv[p].status = "SUCCESS"
      /\ priorZero(p) # {} /\ priorRated(p) # {}
      /\ \A c \in ids(inv[p].data) : persistedTimes(p, c) = 1



\* both invocations were called on the same store, for the same round
concurrentCalls ==
    /\ \A p \in Procs : inv[p].pc # "idle"
    /\ \A p, q \in Procs : inv[p].pre = inv[q].pre /\ inv[p].legacyId = inv[q].legacyId

\* p is about to write its result for a row that is no longer as p loaded it
staleWrite(p) ==
    /\ inv[p].pc = "persistAlgo"
    /\ LET c == inv[p].queue[inv[p].k].coderId
       IN  IF c \in DOMAIN inv[p].pre.algo
           THEN algo[c] # inv[p].pre.algo[c]
           ELSE c \in DOMAIN algo /\ inv[p].existingAlgo # <<>>

\* C34: two calculate invocations of one round, called on the same store and
\* interleaved at their awaits, rate every participant once: no algo_rating
\* row gains more than one rating, once both have returned every attending
\* participant has gained exactly one, and neither writes its result over a
\* row the other has written since the slate was loaded.
C34_ConcurrentRatedOnce ==
    concurrentCalls =>
      \A p \in Procs :
        /\ \A c \in DOMAIN algo : persistedTimes(p, c) <= 1
        /\ ~staleWrite(p)
        /\ (\A q \in Procs : inv[q].pc \in {"done", "failed"}) =>
             \A i \in DOMAIN inv[p].results :
               persistedTimes(p, inv[p].results[i].coder_id) = 1



\* in store st a participant of round r has its result row written and no
\* algo_rating update for r: persistRatings raised between the two writes
halfPersisted(st, r) ==
    {key[2] : key \in {k \in DOMAIN st.lcr :
        /\ k[1] = r
        /\ st.lcr[k].rated_ind = 1
        /\ (k[2] \notin DOMAIN st.algo \/ st.algo[k[2]].last_rated_round_id # r)}}

\* the participants of round r
attending(r) ==
    {key[2] : key \in {k \in DOMAIN lcr : k[1] = r /\ lcr[k].attended \in {"Y", "y"}}}

\* C35: a calculate for round r that returns, called after an earlier
\* calculate for r raised between a participant's two writes, has completed
\* the round: Round(r).rated_ind = 1, every attending participant has a
\* non-null new_rating and an algo_rating row with last_rated_round_id = r,
\* and nobody is left with a written result row but no algo_rating update.
C35_RetryCompletesRound ==
    \A p \in Procs :
      (inv[p].pc = "done" /\ halfPersisted(inv[p].pre, inv[p].roundId) # {}) =>
        /\ round[inv[p].roundId].rated_ind = 1
        /\ \A c \in attending(inv[p].roundId) :
             /\ lcr[<<inv[p].roundId, c>>].new_rating # NULL
             /\ c \in DOMAIN algo
             /\ algo[c].last_rated_round_id = inv[p].roundId
        /\ halfPersisted(Store, inv[p].roundId) = {}



\* in store st the two tables agree on coder c of round r
agree(st, r, c) ==
    /\ c \in DOMAIN st.algo
    /\ <<r, c>> \in DOMAIN st.lcr
    /\ st.algo[c].rating = st.lcr[<<r, c>>].new_rating
    /\ st.algo[c].vol = st.lcr[<<r, c>>].new_vol
    /\ st.algo[c].last_rated_round_id = r

C37_CommitsInOffsetOrder ==
    \A k \in DOMAIN events : \A j \in 1..(k - 1) :
        (events[j][1] = "commit" /\ events[k][1] = "commit") =>
            events[j][2] < events[k][2]



\* getM2Mtoken is called by p in this step
tokenCalled(p) == call[p].pc # "fetching" /\ call'[p] # call[p]

\* C38: when the token fetch raises, the cached token and its expiry are left
\* as they were and the caller gets the error; when AUTH0_URL or
\* AUTH0_CLIENT_ID is not configured, a call that finds no valid cached token
\* returns the empty string at once, no fetch is started and nothing is cached.
C38_RaiseAndUnconfigured ==
    [][\A p \in Procs :
         /\ (call[p].pc = "fetching" /\ call'[p].pc \notin {"fetching", "returned"}) =>
              /\ call'[p].pc = "raised"
              /\ cachedToken' = cachedToken
              /\ tokenExpiry' = tokenExpiry
         /\ (tokenCalled(p) /\ ~configured) =>
              /\ call'[p].pc = "returned"
              /\ call'[p].result = NoToken
              /\ cachedToken' = NoToken /\ cachedToken = NoToken
              /\ tokenExpiry' = tokenExpiry
              /\ issued' = <<>>]_vars

\* a fetch has raised while a token fetched by another call is cached
C38_RaisedWithTokenCached ==
    \E p \in Procs :
      /\ call[p].pc = "raised"
      /\ cachedToken # NoToken
      /\ tokenExpiry > 0

====
